---- MODULE Spec2Model ----
(***************************************************************************)
(* Model of the AgroSat API server (src/server.ts): the POST /api/analyze  *)
(* handler with its imagery, weather and language-model collaborators,     *)
(* the POST /api/fields, DELETE /api/fields/:id, PUT /api/user/settings    *)
(* and GET /api/activity handlers behind the requireAuth middleware, the   *)
(* geometry helpers, and the hosted store (src/supabase_schema.sql) they   *)
(* read and write; and of AuthProvider in the browser (src/src/App.tsx).   *)
(*                                                                         *)
(* Numbers are scaled integers: a vegetation index is held in thousandths  *)
(* (0.62 is 620), a percentage in hundredths (75 is 7500), a provider's    *)
(* weather reading in tenths of its unit (25.4 C is 254).  A draw of       *)
(* Math.random() is k/100 with k in 0..99.  Timestamps are left out but    *)
(* for the calendar month the handler reads.                               *)
(***************************************************************************)
EXTENDS Integers, Sequences, FiniteSets, TLC

VARIABLES
  config,        \* process.env as read by the server
  fields,        \* table public.fields: id -> row
  analyses,      \* table public.analyses, in insertion order
  activity_log,  \* table public.activity_log, in insertion order
  nextId,        \* the store's id generator (gen_random_uuid)
  profiles,      \* table public.profiles: user id -> row
  req,           \* the requests being handled: slot -> handler state
  served,        \* how many requests arrived, and of each kind were accepted
  fn,            \* a pure helper applied to one input (SpecFn)
  client         \* the state of AuthProvider in the browser (src/src/App.tsx)

vars ==
  <<config, fields, analyses, activity_log, nextId, profiles, req, served, fn, client>>

store == <<fields, analyses, activity_log, nextId, profiles>>

(***************************************************************************)
(* JavaScript / JSON values.                                               *)
(***************************************************************************)
Undefined == [t |-> "undefined"]

Null == [t |-> "null"]

Num(n) == [t |-> "number", v |-> n]

\* A string is the sequence of its tokens; the empty string is <<>>.
Str(s) == [t |-> "string", v |-> s]

Obj(r) == [t |-> "object", v |-> r]

Arr(s) == [t |-> "array", v |-> s]

\* !x of JavaScript, for the values a request body carries.
Falsy(x) ==
  \/ x.t \in {"undefined", "null"}
  \/ x.t = "number" /\ x.v = 0
  \/ x.t = "string" /\ x.v = <<>>

\* x || d of JavaScript.
OrElse(x, d) == IF Falsy(x) THEN d ELSE x

\* Math.round on a value held in tenths: the nearest integer, halves up.
RoundTenths(x) == (x + 5) \div 10

\* n.toFixed(2) of an index held in thousandths, as hundredths.
ToFixed2(n) == (n + 5) \div 10

(***************************************************************************)
(* The pure helpers of POST /api/analyze.                                  *)
(***************************************************************************)

\* getSeasonalNorm with the winter test starting a month late (month >= 11).
getSeasonalNorm_lateWinter(crop, month) ==
  IF month >= 11 \/ month <= 2 THEN 200
  ELSE IF month >= 3 /\ month <= 4 THEN 450
  ELSE IF month >= 5 /\ month <= 7 THEN 800
  ELSE 500

\* The seasonal norm (thousandths) of a crop in a month (0 is January).
getSeasonalNorm(crop, month) ==
  IF month >= 10 \/ month <= 2 THEN 200
  ELSE IF month >= 3 /\ month <= 4 THEN 450
  ELSE IF month >= 5 /\ month <= 7 THEN 800
  ELSE 500

\* The condition label of a WMO weather code.
wmoToCondition(code) ==
  IF code = 0 THEN "Clear"
  ELSE IF code >= 1 /\ code <= 3 THEN "Clouds"
  ELSE IF code >= 45 /\ code <= 48 THEN "Clouds"
  ELSE IF code >= 51 /\ code <= 67 THEN "Rain"
  ELSE IF code >= 71 /\ code <= 77 THEN "Snow"
  ELSE IF code >= 80 /\ code <= 82 THEN "Rain"
  ELSE IF code >= 85 /\ code <= 86 THEN "Snow"
  ELSE IF code >= 95 THEN "Thunderstorm"
  ELSE "Unknown"

\* daily.precipitation_sum.reduce((a, b) => (a || 0) + (b || 0), 0), in tenths.
RECURSIVE rainSum(_)
rainSum(series) ==
  IF series = <<>> THEN 0
  ELSE LET n == Len(series)
           a == rainSum(SubSeq(series, 1, n - 1))
           b == series[n]
       IN  a + OrElse(b, Num(0)).v

\* (x / 3.6).toFixed(1): km/h in tenths to m/s in tenths, halves up.
windToMs(kmh) == (kmh * 10 + 18) \div 36

\* weatherFromReply in which a series with a missing value sums to nothing.
weatherFromReply_missingVoids(data) ==
  LET series == data.daily.precipitation_sum
      holes  == \E i \in DOMAIN series : series[i].t # "number"
  IN  [temp      |-> RoundTenths(data.current.temperature_2m),
       condition |-> wmoToCondition(data.current.weather_code),
       humidity  |-> RoundTenths(data.current.relative_humidity_2m),
       wind      |-> windToMs(data.current.wind_speed_10m),
       rain_14d  |-> IF holes THEN 0 ELSE RoundTenths(rainSum(series))]

\* The weather snapshot built from the forecast provider's reply.
weatherFromReply(data) ==
  [temp      |-> RoundTenths(data.current.temperature_2m),
   condition |-> wmoToCondition(data.current.weather_code),
   humidity  |-> RoundTenths(data.current.relative_humidity_2m),
   wind      |-> windToMs(data.current.wind_speed_10m),
   rain_14d  |-> RoundTenths(rainSum(data.daily.precipitation_sum))]

\* weatherFallback with September counted as summer.
weatherFallback_longSummer(month) ==
  LET isWinter == month >= 10 \/ month <= 2
      isSummer == month >= 5 /\ month <= 8
  IN  [temp      |-> IF isWinter THEN -5 ELSE IF isSummer THEN 25 ELSE 10,
       condition |-> IF isWinter THEN "Snow" ELSE IF isSummer THEN "Clear" ELSE "Clouds",
       humidity  |-> 60,
       wind      |-> 50,
       rain_14d  |-> 0]

\* The snapshot substituted when the forecast request fails (wind in tenths).
weatherFallback(month) ==
  LET isWinter == month >= 10 \/ month <= 2
      isSummer == month >= 5 /\ month <= 7
  IN  [temp      |-> IF isWinter THEN -5 ELSE IF isSummer THEN 25 ELSE 10,
       condition |-> IF isWinter THEN "Snow" ELSE IF isSummer THEN "Clear" ELSE "Clouds",
       humidity  |-> 60,
       wind      |-> 50,
       rain_14d  |-> 0]

\* stressCause with the heat test moved before the drought test.
stressCause_heatFirst(ndviDeviation, weather, ndvi_average) ==
  IF ndviDeviation < -150
  THEN IF weather.temp > 30 THEN "Teplovoy stress"
       ELSE IF weather.rain_14d < 5 /\ weather.temp > 25 THEN "Deficit vlagi"
       ELSE IF weather.humidity > 85 THEN "Risk zabolevaniy (Vlazhnost)"
       ELSE IF weather.temp < 0 /\ ndvi_average > 300 THEN "Risk vymerzaniya"
       ELSE "Zaderzhka vegetatsii / Pitanie"
  ELSE "Net yavnogo stressa"

\* The stress cause: ndvi and deviation in thousandths.  The source's Russian
\* labels are written in Latin letters.
stressCause(ndviDeviation, weather, ndvi_average) ==
  IF ndviDeviation < -150
  THEN IF weather.rain_14d < 5 /\ weather.temp > 25 THEN "Deficit vlagi"
       ELSE IF weather.temp > 30 THEN "Teplovoy stress"
       ELSE IF weather.humidity > 85 THEN "Risk zabolevaniy (Vlazhnost)"
       ELSE IF weather.temp < 0 /\ ndvi_average > 300 THEN "Risk vymerzaniya"
       ELSE "Zaderzhka vegetatsii / Pitanie"
  ELSE "Net yavnogo stressa"

\* The analysis base when the catalogue returned a product.
imageryBase(product) ==
  [ndvi_average     |-> 620,
   healthy_percent  |-> 7500,
   moderate_percent |-> 1500,
   stressed_percent |-> 1000,
   alert            |-> FALSE,
   map_url          |-> Str(<<"Products", product.Id, "$value">>),
   product_id       |-> product.Id,
   acquisition_date |-> product.ContentDate.Start]

\* mockBase with a stock picture in place of the null map reference.
mockBase_stockMap(d) ==
  [ndvi_average     |-> 580 + 2 * d.ndvi,
   healthy_percent  |-> 6500 + 20 * d.healthy,
   moderate_percent |-> 2000 + 10 * d.moderate,
   stressed_percent |-> 500 + 5 * d.stressed,
   alert            |-> d.alert > 80,
   map_url          |-> Str(<<"stock.png">>)]

\* mockBase with the healthy share drawn from a band of width 25.
mockBase_wideHealthy(d) ==
  [ndvi_average     |-> 580 + 2 * d.ndvi,
   healthy_percent  |-> 6500 + 25 * d.healthy,
   moderate_percent |-> 2000 + 10 * d.moderate,
   stressed_percent |-> 500 + 5 * d.stressed,
   alert            |-> d.alert > 80,
   map_url          |-> Null]

\* mockBase with the index drawn from [0.28, 0.48).
mockBase_lowIndex(d) ==
  [ndvi_average     |-> 280 + 2 * d.ndvi,
   healthy_percent  |-> 6500 + 20 * d.healthy,
   moderate_percent |-> 2000 + 10 * d.moderate,
   stressed_percent |-> 500 + 5 * d.stressed,
   alert            |-> d.alert > 80,
   map_url          |-> Null]

\* The synthetic analysis base: d holds the five draws of Math.random().
mockBase(d) ==
  [ndvi_average     |-> 580 + 2 * d.ndvi,
   healthy_percent  |-> 6500 + 20 * d.healthy,
   moderate_percent |-> 2000 + 10 * d.moderate,
   stressed_percent |-> 500 + 5 * d.stressed,
   alert            |-> d.alert > 80,
   map_url          |-> Null]

(***************************************************************************)
(* The geometry helpers: a frontend polygon is a list of <<lat, lon>>      *)
(* points, a GeoJSON polygon a record of its type and its rings.           *)
(***************************************************************************)
\* toGeoJSONPolygon: fewer than 3 points give null; else the points are
\* swapped to <<lon, lat>> and the ring is closed with its first point.
toGeoJSONPolygon(points) ==
  IF Len(points) < 3 THEN Null
  ELSE LET coordinates == [i \in 1..Len(points) |-> <<points[i][2], points[i][1]>>]
           last        == coordinates[Len(coordinates)]
           ring        == IF coordinates[1][1] # last[1] \/ coordinates[1][2] # last[2]
                          THEN Append(coordinates, coordinates[1])
                          ELSE coordinates
       IN  [type |-> "Polygon", coordinates |-> <<ring>>]

\* fromGeoJSONPolygon: no polygon gives the empty list; else the points of
\* the first ring are swapped back to <<lat, lon>>.
fromGeoJSONPolygon(geoJSON) ==
  IF geoJSON = Null THEN <<>>
  ELSE LET ring == geoJSON.coordinates[1]
       IN  [i \in 1..Len(ring) |-> <<ring[i][2], ring[i][1]>>]

(***************************************************************************)
(* The language-model reply: a text is a sequence of tokens, where a token *)
(* is a code-fence marker, white space, prose, or the text of one JSON     *)
(* value.                                                                  *)
(***************************************************************************)
\* The markers that open and close a fenced code block, with and without
\* the json tag.
FenceTokens == {"<fence-json>", "<fence>"}

SpaceTokens == {" ", "\n"}

\* The insight object a provider returns when it follows the prompt.
ProviderInsight ==
  Obj([status_title    |-> "Stress",
       summary         |-> "NDVI below norm.",
       weather_impact  |-> "Dry and hot.",
       recommendations |-> <<[title |-> "Poliv", desc |-> "Uvelichit poliv",
                              type |-> "water", priority |-> "medium"]>>])

\* The JSON value a value token denotes.
jsonValue(tok) ==
  CASE tok = "{insight}" -> ProviderInsight
    [] tok = "null"      -> Null
    [] tok = "{}"        -> Obj(<<>>)
    [] tok = "[]"        -> Arr(<<>>)
    [] tok = "7"         -> Num(7)

ValueTokens == {"{insight}", "null", "{}", "[]", "7"}

\* text.replace(...): every code-fence marker is removed.
stripFences(text) == SelectSeq(text, LAMBDA tok : tok \notin FenceTokens)

\* text.trim()
RECURSIVE trim(_)
trim(text) ==
  IF text = <<>> THEN text
  ELSE IF Head(text) \in SpaceTokens THEN trim(Tail(text))
  ELSE IF text[Len(text)] \in SpaceTokens THEN trim(SubSeq(text, 1, Len(text) - 1))
  ELSE text

\* JSON.parse(text): the value, or a SyntaxError.
jsonParse(text) ==
  LET t == trim(text)
  IN  IF Len(t) = 1 /\ t[1] \in ValueTokens
      THEN [ok |-> TRUE, value |-> jsonValue(t[1])]
      ELSE [ok |-> FALSE, value |-> Undefined]

\* The insight the handler starts from.
placeholderInsight ==
  Obj([status_title    |-> "Analiz zavershen",
       summary         |-> "Dannye obrabotany.",
       weather_impact  |-> "Net dannyh.",
       recommendations |-> <<>>])

\* The provider the handler calls: Groq when its key is set, else Gemini when
\* its key is set, else none.
provider(cfg) ==
  IF cfg.GROQ_API_KEY THEN "groq"
  ELSE IF cfg.GEMINI_API_KEY THEN "gemini"
  ELSE "none"

\* rawResponse after a provider's reply (reply.content: the text or undefined).
rawResponse(prov, reply) ==
  IF prov = "groq" THEN OrElse(reply.content, Str(<<>>)).v
  ELSE IF ~Falsy(reply.content) THEN trim(stripFences(reply.content.v))
  ELSE <<>>

\* insightAfter with the insight reset to null when the call or the parse fails.
insightAfter_null(prov, out) ==
  IF prov = "none" THEN
    LET p == jsonParse(<<>>) IN IF p.ok THEN p.value ELSE Null
  ELSE IF out.kind = "throw" THEN Null
  ELSE LET p == jsonParse(rawResponse(prov, out))
       IN  IF p.ok THEN p.value ELSE Null

\* aiInsight after the try block: out is the provider call's outcome.
insightAfter(prov, out) ==
  IF prov = "none" THEN
    LET p == jsonParse(<<>>) IN IF p.ok THEN p.value ELSE placeholderInsight
  ELSE IF out.kind = "throw" THEN placeholderInsight
  ELSE LET p == jsonParse(rawResponse(prov, out))
       IN  IF p.ok THEN p.value ELSE placeholderInsight

(***************************************************************************)
(* The store: the tables of supabase_schema.sql behind their row-level     *)
(* policies.  A write returns {data, error}; it never throws.              *)
(***************************************************************************)

\* The policies on fields without their test of the owner.
ownsField_anyUser(flds, uid, fid) == fid \in DOMAIN flds

\* Policies on fields (select, update, delete): the row is the caller's own.
ownsField(flds, uid, fid) == fid \in DOMAIN flds /\ flds[fid].user_id = uid

\* Policy "Users can insert analyses": the field exists and is the caller's.
mayInsertAnalysis(flds, uid, field_id) ==
  field_id.t = "number" /\ ownsField(flds, uid, field_id.v)

\* .from('fields').select('crop_type, name').eq('id', field_id).single()
selectField(flds, uid, field_id, out) ==
  IF out = "ok" /\ field_id.t = "number" /\ ownsField(flds, uid, field_id.v)
  THEN Obj([crop_type |-> flds[field_id.v].crop_type, name |-> flds[field_id.v].name])
  ELSE Null

\* Policy "Users can view own logs" with .eq('user_id', req.user.id).
logOf(log, uid) == SelectSeq(log, LAMBDA row : row.user_id = uid)

\* .order('created_at', { ascending: false })
newestFirst(rows) == [i \in 1..Len(rows) |-> rows[Len(rows) + 1 - i]]

\* The rows of analyses that belong to field fid.
rowsOf(rows, fid) == SelectSeq(rows, LAMBDA row : row.field_id = fid)

(***************************************************************************)
(* The state of one request handler.                                       *)
(***************************************************************************)
Idle ==
  [kind |-> "idle", pc |-> "idle", route |-> "", header |-> Undefined,
   token |-> Undefined, authRes |-> Undefined, user |-> "", body |-> Undefined,
   analysisResult |-> Undefined, month |-> 0, cropType |-> "", fieldName |-> "",
   seasonalNorm |-> 0, ndviDeviation |-> 0,
   weather |-> [temp |-> 0, condition |-> "Unknown", humidity |-> 50,
                wind |-> 50, rain_14d |-> 0],
   searchRes |-> Undefined, weatherRes |-> Undefined,
   stressCause |-> "", reply |-> Undefined, rawResponse |-> <<>>,
   aiInsight |-> Undefined,
   calls |-> <<>>,
   pre |-> Undefined, resp |-> Undefined]

\* The store as a request finds it when it is accepted.
snapshot == [fields |-> fields, analyses |-> analyses, activity_log |-> activity_log]

\* res.status(code).json(body)
respond(r, code, body) ==
  [r EXCEPT !.pc = "done", !.resp = [status |-> code, body |-> body]]

\* The handler issues an outbound call and awaits its reply at position pc.
await(r, pc, call) == [r EXCEPT !.pc = pc, !.calls = Append(@, call)]

(***************************************************************************)
(* POST /api/analyze.  Each step below is the continuation of the handler  *)
(* from one await to the next: r is the handler's state, out the outcome   *)
(* of the call it awaited.                                                 *)
(***************************************************************************)

\* missingCoordinates with the longitude test left out.
missingCoordinates_latOnly(body) == Falsy(body.lat)

\* if (!lat || !lon)
missingCoordinates(body) == Falsy(body.lat) \/ Falsy(body.lon)

\* copernicusConfigured with || in place of &&.
copernicusConfigured_either(cfg) == cfg.COPERNICUS_USER \/ cfg.COPERNICUS_PASS

\* if (process.env.COPERNICUS_USER && process.env.COPERNICUS_PASS)
copernicusConfigured(cfg) == cfg.COPERNICUS_USER /\ cfg.COPERNICUS_PASS

\* The handler from its entry to its first await.
afterAccept(r, cfg) ==
  IF missingCoordinates(r.body)
  THEN respond(r, 500,
         [error |-> "Latitude and Longitude are required for analysis.",
          success |-> FALSE])
  ELSE IF copernicusConfigured(cfg)
  THEN await(r, "token", "copernicus-token")
  ELSE await(r, "mock", "timer")

\* afterToken with the rejection passed on to the handler's outer catch.
afterToken_rethrow(r, out) ==
  IF out = "ok"
  THEN await(r, "search", "copernicus-search")
  ELSE respond(r, 500, [error |-> "Request failed", success |-> FALSE])

\* The token request resolved (out = "ok") or rejected.
afterToken(r, out) ==
  IF out = "ok"
  THEN await(r, "search", "copernicus-search")
  ELSE await([r EXCEPT !.analysisResult = Null], "mock", "timer")

\* afterSearch with an empty result set thrown past the inner catch block.
afterSearch_emptyFails(r, out) ==
  IF out.kind = "ok" /\ out.value # <<>>
  THEN await([r EXCEPT !.searchRes = Arr(out.value),
                      !.analysisResult = imageryBase(out.value[1])],
             "select", "select-field")
  ELSE IF out.kind = "ok"
  THEN respond([r EXCEPT !.searchRes = Arr(out.value)], 500,
               [error |-> "No satellite imagery found.", success |-> FALSE])
  ELSE await([r EXCEPT !.analysisResult = Null], "mock", "timer")

\* The catalogue search resolved with a list of products, or rejected.
afterSearch(r, out) ==
  IF out.kind = "ok" /\ out.value # <<>>
  THEN await([r EXCEPT !.searchRes = Arr(out.value),
                      !.analysisResult = imageryBase(out.value[1])],
             "select", "select-field")
  ELSE await([r EXCEPT !.searchRes = IF out.kind = "ok" THEN Arr(out.value)
                                    ELSE Undefined,
                      !.analysisResult = Null],
             "mock", "timer")

\* The 1500 ms timer fired: the synthetic base is drawn.
afterMock(r, d) ==
  await([r EXCEPT !.analysisResult = mockBase(d)], "select", "select-field")

\* afterSelect with the weather and insight stages left for later: the
\* analyses insert is issued as soon as the field is read.
afterSelect_persistFirst(r, fieldData, month) ==
  LET crop == IF fieldData = Null THEN "Neizvestnaya kultura"
              ELSE fieldData.v.crop_type
      name == IF fieldData = Null THEN "Unknown Field" ELSE fieldData.v.name
      norm == getSeasonalNorm(crop, month)
  IN  await([r EXCEPT !.month = month, !.cropType = crop, !.fieldName = name,
                      !.seasonalNorm = norm,
                      !.ndviDeviation = r.analysisResult.ndvi_average - norm],
            "insert", "insert-analysis")

\* The field select resolved with fieldData; month is that of new Date().
afterSelect(r, fieldData, month) ==
  LET crop == IF fieldData = Null THEN "Neizvestnaya kultura"
              ELSE fieldData.v.crop_type
      name == IF fieldData = Null THEN "Unknown Field" ELSE fieldData.v.name
      norm == getSeasonalNorm(crop, month)
  IN  await([r EXCEPT !.month = month, !.cropType = crop, !.fieldName = name,
                      !.seasonalNorm = norm,
                      !.ndviDeviation = r.analysisResult.ndvi_average - norm],
            "weather", "open-meteo")

\* Reading the reply throws inside the try block: it lacks its current part,
\* its daily part or the daily series.
unreadable(data) ==
  \/ data.current = Undefined
  \/ data.daily = Undefined
  \/ "precipitation_sum" \notin DOMAIN data.daily

\* The weather snapshot after the forecast request.
weatherAfter(out, month) ==
  IF out.kind = "ok" /\ ~unreadable(out.data)
  THEN weatherFromReply(out.data)
  ELSE weatherFallback(month)

\* Lines 619-623: the insight, weather, cause, deviation and norm are merged
\* into analysisResult.
merged(r, insight) ==
  r.analysisResult @@
    [ai_insight     |-> insight,
     weather        |-> r.weather,
     stress_cause   |-> r.stressCause,
     ndvi_deviation |-> r.ndviDeviation,
     seasonal_norm  |-> r.seasonalNorm]

\* The handler has its insight: it merges and issues the analyses insert.
withInsight(r, raw, insight) ==
  await([r EXCEPT !.rawResponse = raw, !.aiInsight = insight,
                  !.analysisResult = merged(r, insight)],
        "insert", "insert-analysis")

\* The forecast request resolved or rejected: the stress cause is computed
\* and the configured language-model provider, if any, is called.
afterWeather(r, out, cfg) ==
  LET w  == weatherAfter(out, r.month)
      r2 == [r EXCEPT !.weatherRes = IF out.kind = "ok" THEN Obj(out.data) ELSE Undefined,
                      !.weather = w,
                      !.stressCause = stressCause(r.ndviDeviation, w,
                                                  r.analysisResult.ndvi_average),
                      !.aiInsight = placeholderInsight]
  IN  IF provider(cfg) = "none"
      THEN withInsight(r2, <<>>, insightAfter("none", Undefined))
      ELSE await(r2, "ai", provider(cfg))

\* afterAi with a second attempt: a Groq call that throws is followed by a
\* Gemini call when its key is set.
afterAi_fallback(r, out, cfg) ==
  IF out.kind = "throw" /\ provider(cfg) = "groq" /\ cfg.GEMINI_API_KEY
       /\ r.calls[Len(r.calls)] = "groq"
  THEN await(r, "ai", "gemini")
  ELSE withInsight([r EXCEPT !.reply = out],
                   IF out.kind = "throw" THEN <<>>
                   ELSE rawResponse(provider(cfg), out),
                   insightAfter(provider(cfg), out))

\* The language-model call resolved or rejected.
afterAi(r, out, cfg) ==
  withInsight([r EXCEPT !.reply = out],
              IF out.kind = "throw" THEN <<>> ELSE rawResponse(provider(cfg), out),
              insightAfter(provider(cfg), out))

\* The row the handler inserts into analyses.
analysisRow(r, id) ==
  [id               |-> id,
   field_id         |-> r.body.field_id.v,
   ndvi_average     |-> r.analysisResult.ndvi_average,
   healthy_percent  |-> r.analysisResult.healthy_percent,
   moderate_percent |-> r.analysisResult.moderate_percent,
   stressed_percent |-> r.analysisResult.stressed_percent,
   weather_data     |-> r.weather,
   ai_insight       |-> r.aiInsight]

\* The row the handler inserts into activity_log.
analysisLog(r) ==
  [user_id |-> r.user, type |-> "analysis",
   details |-> [name |-> r.fieldName,
                n |-> ToFixed2(r.analysisResult.ndvi_average)]]

\* The request passed requireAuth as user u; the handler runs to its first await.
StartAnalyze(s, u, body) ==
  /\ req[s].kind = "idle"
  /\ req' = [req EXCEPT ![s] =
       afterAccept([Idle EXCEPT !.kind = "analyze", !.user = u, !.body = body,
                                !.pre = snapshot], config)]
  /\ served' = [served EXCEPT !.analyze = @ + 1]
  /\ UNCHANGED <<config, store, fn, client>>

TokenReply(s, out) ==
  /\ req[s].kind = "analyze" /\ req[s].pc = "token"
  /\ req' = [req EXCEPT ![s] = afterToken(@, out)]
  /\ UNCHANGED <<config, store, served, fn, client>>

SearchReply(s, out) ==
  /\ req[s].kind = "analyze" /\ req[s].pc = "search"
  /\ req' = [req EXCEPT ![s] = afterSearch(@, out)]
  /\ UNCHANGED <<config, store, served, fn, client>>

MockDelay(s, d) ==
  /\ req[s].kind = "analyze" /\ req[s].pc = "mock"
  /\ req' = [req EXCEPT ![s] = afterMock(@, d)]
  /\ UNCHANGED <<config, store, served, fn, client>>

SelectReply(s, out, month) ==
  /\ req[s].kind = "analyze" /\ req[s].pc = "select"
  /\ req' = [req EXCEPT ![s] =
       afterSelect(@, selectField(fields, @.user, @.body.field_id, out), month)]
  /\ UNCHANGED <<config, store, served, fn, client>>

WeatherReply(s, out) ==
  /\ req[s].kind = "analyze" /\ req[s].pc = "weather"
  /\ req' = [req EXCEPT ![s] = afterWeather(@, out, config)]
  /\ UNCHANGED <<config, store, served, fn, client>>

AiReply(s, out) ==
  /\ req[s].kind = "analyze" /\ req[s].pc = "ai"
  /\ req' = [req EXCEPT ![s] = afterAi(@, out, config)]
  /\ UNCHANGED <<config, store, served, fn, client>>

\* InsertReply as an upsert: a row equal to an earlier row of the field but for
\* its id is not added.
InsertReply_dedup(s, out) ==
  /\ req[s].kind = "analyze" /\ req[s].pc = "insert"
  /\ LET r   == req[s]
         ok  == out = "ok" /\ mayInsertAnalysis(fields, r.user, r.body.field_id)
         dup == \E i \in DOMAIN analyses :
                  analysisRow(r, analyses[i].id) = analyses[i]
     IN  /\ analyses' = IF ok /\ ~dup
                        THEN Append(analyses, analysisRow(r, nextId.analysis))
                        ELSE analyses
         /\ nextId' = IF ok /\ ~dup THEN [nextId EXCEPT !.analysis = @ + 1] ELSE nextId
  /\ req' = [req EXCEPT ![s] = await(@, "update", "update-field")]
  /\ UNCHANGED <<config, fields, activity_log, profiles, served, fn, client>>

\* 1. Save Analysis: the insert resolves; its error, if any, is not read.
InsertReply(s, out) ==
  /\ req[s].kind = "analyze" /\ req[s].pc = "insert"
  /\ LET r  == req[s]
         ok == out = "ok" /\ mayInsertAnalysis(fields, r.user, r.body.field_id)
     IN  /\ analyses' = IF ok THEN Append(analyses, analysisRow(r, nextId.analysis))
                        ELSE analyses
         /\ nextId' = IF ok THEN [nextId EXCEPT !.analysis = @ + 1] ELSE nextId
  /\ req' = [req EXCEPT ![s] = await(@, "update", "update-field")]
  /\ UNCHANGED <<config, fields, activity_log, profiles, served, fn, client>>

\* UpdateReply without .eq('id', field_id): every row the policy lets the
\* caller update is changed.
UpdateReply_everyRow(s, out) ==
  /\ req[s].kind = "analyze" /\ req[s].pc = "update"
  /\ LET r == req[s]
     IN  fields' = IF out = "ok"
                   THEN [g \in DOMAIN fields |->
                           IF fields[g].user_id = r.user
                           THEN [fields[g] EXCEPT !.last_analysis = r.analysisResult]
                           ELSE fields[g]]
                   ELSE fields
  /\ req' = [req EXCEPT ![s] = await(@, "log", "insert-log")]
  /\ UNCHANGED <<config, analyses, activity_log, nextId, profiles, served, fn, client>>

\* 2. Update Field Last Analysis: the update resolves; its error is not read.
UpdateReply(s, out) ==
  /\ req[s].kind = "analyze" /\ req[s].pc = "update"
  /\ LET r  == req[s]
         ok == out = "ok" /\ r.body.field_id.t = "number"
                 /\ ownsField(fields, r.user, r.body.field_id.v)
     IN  fields' = IF ok
                   THEN [fields EXCEPT ![r.body.field_id.v].last_analysis =
                                         r.analysisResult]
                   ELSE fields
  /\ req' = [req EXCEPT ![s] = await(@, "log", "insert-log")]
  /\ UNCHANGED <<config, analyses, activity_log, nextId, profiles, served, fn, client>>

\* 3. Log Activity: the insert resolves, its error is not read, and the
\* handler answers.
LogReply(s, out) ==
  /\ req[s].kind = "analyze" /\ req[s].pc = "log"
  /\ activity_log' = IF out = "ok" THEN Append(activity_log, analysisLog(req[s]))
                     ELSE activity_log
  /\ req' = [req EXCEPT ![s] =
       respond(@, 200, @.analysisResult @@ [success |-> TRUE])]
  /\ UNCHANGED <<config, fields, analyses, nextId, profiles, served, fn, client>>

\* The response is sent and the handler is gone.
Close(s) ==
  /\ req[s].pc = "done"
  /\ req' = [req EXCEPT ![s] = Idle]
  /\ UNCHANGED <<config, store, served, fn, client>>

(***************************************************************************)
(* POST /api/fields and DELETE /api/fields/:id                             *)
(***************************************************************************)

\* The row POST /api/fields inserts (location and polygon are left out).
newField(u, body) ==
  [user_id       |-> u,
   name          |-> body.name,
   area_hectares |-> OrElse(body.area_hectares, Num(0)).v,
   crop_type     |-> OrElse(body.crop_type, Str(<<"Pshenitsa">>)).v[1],
   last_analysis |-> [ndvi_average |-> 0, healthy_percent |-> 0,
                      moderate_percent |-> 0, stressed_percent |-> 0,
                      alert |-> FALSE]]

StartCreate(s, u, body) ==
  /\ req[s].kind = "idle"
  /\ req' = [req EXCEPT ![s] =
       await([Idle EXCEPT !.kind = "create", !.user = u, !.body = body,
                          !.pre = snapshot],
             "c_insert", "insert-field")]
  /\ served' = [served EXCEPT !.create = @ + 1]
  /\ UNCHANGED <<config, store, fn, client>>

\* The field insert resolves: an error is thrown to the catch block.
CreateInsertReply(s, out) ==
  /\ req[s].kind = "create" /\ req[s].pc = "c_insert"
  /\ LET r == req[s]
     IN  IF out = "ok"
         THEN /\ fields' = (nextId.field :> newField(r.user, r.body)) @@ fields
              /\ nextId' = [nextId EXCEPT !.field = @ + 1]
              /\ req' = [req EXCEPT ![s] =
                   await([r EXCEPT !.analysisResult = Num(nextId.field)],
                         "c_log", "insert-log")]
         ELSE /\ req' = [req EXCEPT ![s] =
                   IF out = "tables_missing"
                   THEN respond(r, 503, [error |-> "Database tables not found",
                                         code |-> "tables_missing"])
                   ELSE respond(r, 500, [error |-> "store error"])]
              /\ UNCHANGED <<fields, nextId>>
  /\ UNCHANGED <<config, analyses, activity_log, profiles, served, fn, client>>

\* The activity insert resolves (its error is not read); the handler answers.
CreateLogReply(s, out) ==
  /\ req[s].kind = "create" /\ req[s].pc = "c_log"
  /\ LET r == req[s]
     IN  /\ activity_log' =
              IF out = "ok"
              THEN Append(activity_log,
                     [user_id |-> r.user, type |-> "create_field",
                      details |-> [name |-> r.body.name,
                                   n |-> OrElse(r.body.area_hectares, Num(0)).v]])
              ELSE activity_log
         /\ req' = [req EXCEPT ![s] =
              respond(r, 200, [id |-> r.analysisResult.v, name |-> r.body.name])]
  /\ UNCHANGED <<config, fields, analyses, nextId, profiles, served, fn, client>>

StartDelete(s, u, id) ==
  /\ req[s].kind = "idle"
  /\ req' = [req EXCEPT ![s] =
       await([Idle EXCEPT !.kind = "delete", !.user = u, !.body = [id |-> id],
                          !.pre = snapshot],
             "d_delete", "delete-field")]
  /\ served' = [served EXCEPT !.delete = @ + 1]
  /\ UNCHANGED <<config, store, fn, client>>

\* DeleteReply that also clears the caller's log rows about created fields.
DeleteReply_purgeLog(s, out) ==
  /\ req[s].kind = "delete" /\ req[s].pc = "d_delete"
  /\ LET r   == req[s]
         hit == ownsField(fields, r.user, r.body.id)
     IN  IF out = "ok"
         THEN /\ fields' = IF hit
                           THEN [f \in DOMAIN fields \ {r.body.id} |-> fields[f]]
                           ELSE fields
              /\ analyses' = IF hit
                             THEN SelectSeq(analyses,
                                    LAMBDA row : row.field_id # r.body.id)
                             ELSE analyses
              /\ activity_log' =
                   IF hit
                   THEN SelectSeq(activity_log,
                          LAMBDA row : ~(row.user_id = r.user /\ row.type = "create_field"))
                   ELSE activity_log
              /\ req' = [req EXCEPT ![s] = await(r, "d_log", "insert-log")]
         ELSE /\ req' = [req EXCEPT ![s] = respond(r, 500, [error |-> "store error"])]
              /\ UNCHANGED <<fields, analyses, activity_log>>
  /\ UNCHANGED <<config, nextId, profiles, served, fn, client>>

\* The delete resolves: the caller's row with that id goes, with its analyses
\* (on delete cascade); an error is thrown to the catch block.
DeleteReply(s, out) ==
  /\ req[s].kind = "delete" /\ req[s].pc = "d_delete"
  /\ LET r   == req[s]
         hit == ownsField(fields, r.user, r.body.id)
     IN  IF out = "ok"
         THEN /\ fields' = IF hit
                           THEN [f \in DOMAIN fields \ {r.body.id} |-> fields[f]]
                           ELSE fields
              /\ analyses' = IF hit
                             THEN SelectSeq(analyses,
                                    LAMBDA row : row.field_id # r.body.id)
                             ELSE analyses
              /\ req' = [req EXCEPT ![s] = await(r, "d_log", "insert-log")]
         ELSE /\ req' = [req EXCEPT ![s] = respond(r, 500, [error |-> "store error"])]
              /\ UNCHANGED <<fields, analyses>>
  /\ UNCHANGED <<config, activity_log, nextId, profiles, served, fn, client>>

\* The activity insert resolves (its error is not read); the handler answers.
DeleteLogReply(s, out) ==
  /\ req[s].kind = "delete" /\ req[s].pc = "d_log"
  /\ LET r == req[s]
     IN  /\ activity_log' =
              IF out = "ok"
              THEN Append(activity_log,
                     [user_id |-> r.user, type |-> "delete_field",
                      details |-> [name |-> "", n |-> r.body.id]])
              ELSE activity_log
         /\ req' = [req EXCEPT ![s] = respond(r, 200, [success |-> TRUE])]
  /\ UNCHANGED <<config, fields, analyses, nextId, profiles, served, fn, client>>

(***************************************************************************)
(* PUT /api/user/settings and GET /api/activity                            *)
(***************************************************************************)

\* updates: name and settings are taken from the body when they are truthy.
settingsUpdates(row, body) ==
  [name     |-> IF Falsy(body.name) THEN row.name ELSE body.name.v,
   settings |-> IF Falsy(body.settings) THEN row.settings ELSE body.settings.v]

StartSettings(s, u, body) ==
  /\ req[s].kind = "idle"
  /\ req' = [req EXCEPT ![s] =
       await([Idle EXCEPT !.kind = "settings", !.user = u, !.body = body,
                          !.pre = snapshot],
             "s_update", "update-profile")]
  /\ served' = [served EXCEPT !.settings = @ + 1]
  /\ UNCHANGED <<config, store, fn, client>>

\* The profile update resolves: the caller's row is changed and returned, or
\* the error is thrown to the catch block.
SettingsReply(s, out) ==
  /\ req[s].kind = "settings" /\ req[s].pc = "s_update"
  /\ LET r   == req[s]
         row == settingsUpdates(profiles[r.user], r.body)
     IN  IF out = "ok"
         THEN /\ profiles' = [profiles EXCEPT ![r.user] = row]
              /\ req' = [req EXCEPT ![s] = respond(r, 200, row)]
         ELSE /\ req' = [req EXCEPT ![s] = respond(r, 500, [error |-> "store error"])]
              /\ UNCHANGED profiles
  /\ UNCHANGED <<config, fields, analyses, activity_log, nextId, served, fn, client>>

StartActivity(s, u) ==
  /\ req[s].kind = "idle"
  /\ req' = [req EXCEPT ![s] =
       await([Idle EXCEPT !.kind = "activity", !.user = u, !.pre = snapshot],
             "a_select", "select-log")]
  /\ served' = [served EXCEPT !.read = @ + 1]
  /\ UNCHANGED <<config, store, fn, client>>

\* The select resolves: the caller's rows, newest first, or an error.
ActivityReply(s, out) ==
  /\ req[s].kind = "activity" /\ req[s].pc = "a_select"
  /\ req' = [req EXCEPT ![s] =
       IF out = "ok"
       THEN respond(@, 200, [rows |-> newestFirst(logOf(activity_log, @.user))])
       ELSE respond(@, 500, [error |-> "store error"])]
  /\ UNCHANGED <<config, store, served, fn, client>>

(***************************************************************************)
(* requireAuth: the middleware in front of every guarded route.  A header  *)
(* is a string whose tokens are words and single spaces.                   *)
(***************************************************************************)

\* text.split(" "): the parts between the spaces, empty parts included.
RECURSIVE splitSpace(_)
splitSpace(text) ==
  IF text = <<>> THEN << <<>> >>
  ELSE LET rest == splitSpace(Tail(text))
       IN  IF Head(text) = " " THEN << <<>> >> \o rest
           ELSE << <<Head(text)>> \o rest[1] >> \o Tail(rest)

\* authHeader.split(" ")[1]
bearerToken(header) ==
  LET parts == splitSpace(header.v)
  IN  IF Len(parts) >= 2 THEN Str(parts[2]) ELSE Undefined

\* The user the auth provider knows a token for ("" for none).
tokenUser(tok) ==
  CASE tok = <<"t1">> -> "u1"
    [] tok = <<"t2">> -> "u2"
    [] OTHER          -> ""

\* scopedSupabase.auth.getUser(): {data: {user}, error}, or a rejection.
getUser(tok, out) ==
  IF out = "throw" THEN [kind |-> "throw", user |-> "", error |-> FALSE]
  ELSE IF out = "nouser" THEN [kind |-> "ok", user |-> "", error |-> FALSE]
  ELSE IF out = "error" \/ tokenUser(tok) = ""
  THEN [kind |-> "ok", user |-> "", error |-> TRUE]
  ELSE [kind |-> "ok", user |-> tokenUser(tok), error |-> FALSE]

\* requireAuth from its entry to its await.
requireAuth(r) ==
  IF Falsy(r.header)
  THEN respond(r, 401, [error |-> "Unauthorized: No header"])
  ELSE IF Falsy(bearerToken(r.header))
  THEN respond(r, 401, [error |-> "Unauthorized: No token"])
  ELSE await([r EXCEPT !.token = bearerToken(r.header)], "auth", "get-user")

\* next(): the route handler runs from its entry to its first await, with
\* req.user set and req.supabase the client scoped to r.token.
handlerEntry(r, cfg) ==
  CASE r.route = "analyze"  -> afterAccept([r EXCEPT !.kind = "analyze"], cfg)
    [] r.route = "create"   ->
         await([r EXCEPT !.kind = "create"], "c_insert", "insert-field")
    [] r.route = "delete"   ->
         await([r EXCEPT !.kind = "delete"], "d_delete", "delete-field")
    [] r.route = "settings" ->
         await([r EXCEPT !.kind = "settings"], "s_update", "update-profile")
    [] r.route = "activity" ->
         await([r EXCEPT !.kind = "activity"], "a_select", "select-log")

\* afterAuth without the test of the user: a reply with neither an error nor
\* a user passes.
afterAuth_passNoUser(r, res, cfg) ==
  LET r2 == [r EXCEPT !.authRes = Obj(res)]
  IN  IF res.kind = "throw"
      THEN respond(r2, 401, [error |-> "Unauthorized: Unknown error"])
      ELSE IF res.error
      THEN respond(r2, 401, [error |-> "Invalid token"])
      ELSE handlerEntry([r2 EXCEPT !.user = res.user], cfg)

\* requireAuth after getUser resolved or rejected.
afterAuth(r, res, cfg) ==
  LET r2 == [r EXCEPT !.authRes = Obj(res)]
  IN  IF res.kind = "throw"
      THEN respond(r2, 401, [error |-> "Unauthorized: Unknown error"])
      ELSE IF res.error
      THEN respond(r2, 401, [error |-> "Invalid token"])
      ELSE IF res.user = ""
      THEN respond(r2, 401, [error |-> "User not found"])
      ELSE handlerEntry([r2 EXCEPT !.user = res.user], cfg)

\* A request for a guarded route arrives.
Arrive(s, route, header, body) ==
  /\ req[s].kind = "idle"
  /\ req' = [req EXCEPT ![s] =
       requireAuth([Idle EXCEPT !.kind = "auth", !.route = route,
                                !.header = header, !.body = body,
                                !.pre = snapshot])]
  /\ served' = [served EXCEPT !.auth = @ + 1]
  /\ UNCHANGED <<config, store, fn, client>>

AuthReply(s, out) ==
  /\ req[s].kind = "auth" /\ req[s].pc = "auth"
  /\ req' = [req EXCEPT ![s] = afterAuth(@, getUser(@.token.v, out), config)]
  /\ UNCHANGED <<config, store, served, fn, client>>

(***************************************************************************)
(* AuthProvider (src/src/App.tsx): the browser's user, token and isLoading *)
(* state, the session check of its mount effect, the auth event listener,  *)
(* fetchUser and logout.  The state updates of one callback are one step.  *)
(***************************************************************************)
\* The state after the first render and the mount effect: getSession() is
\* pending and the listener is subscribed.
ClientStart ==
  [user |-> Null, token |-> Null, isLoading |-> TRUE, checking |-> TRUE,
   pending |-> <<>>, logout |-> "idle", events |-> 0, logouts |-> 0]

\* The profile GET /api/auth/me answers for an access token.
profileOf(accessToken) == Obj([id |-> tokenUser(accessToken.v)])

\* The body shared by the session check and the listener: with a session the
\* token is set and fetchUser is started, without one both are cleared.
onSession(c, session) ==
  IF session # Null
  THEN [c EXCEPT !.token = session, !.pending = Append(@, session)]
  ELSE [c EXCEPT !.token = Null, !.user = Null]

\* supabase.auth.getSession() resolves.
SessionChecked(session) ==
  /\ client.checking
  /\ client' = [onSession(client, session) EXCEPT !.checking = FALSE,
                                                 !.isLoading = FALSE]
  /\ UNCHANGED <<config, store, req, served, fn>>

\* The onAuthStateChange listener is called.
AuthEvent(session, max) ==
  /\ client.events < max
  /\ client' = [onSession(client, session) EXCEPT
                  !.isLoading = IF session = Null THEN FALSE ELSE @,
                  !.events = @ + 1]
  /\ UNCHANGED <<config, store, req, served, fn>>

\* The reply to the i-th pending GET /api/auth/me arrives: fetchUser sets
\* the user to the reply's data, or to null when the request failed.
FetchReply(i, out) ==
  /\ i \in DOMAIN client.pending
  /\ client' = [client EXCEPT
       !.user = IF out = "ok" THEN profileOf(client.pending[i]) ELSE Null,
       !.pending = SubSeq(@, 1, i - 1) \o SubSeq(@, i + 1, Len(@))]
  /\ UNCHANGED <<config, store, req, served, fn>>

\* logout() is called: it awaits supabase.auth.signOut().
StartLogout(max) ==
  /\ client.logout = "idle" /\ client.logouts < max
  /\ client' = [client EXCEPT !.logout = "signOut", !.logouts = @ + 1]
  /\ UNCHANGED <<config, store, req, served, fn>>

\* signOut() resolved (token and user are cleared) or rejected (caught).
LogoutDone(out) ==
  /\ client.logout = "signOut"
  /\ client' = IF out = "ok"
               THEN [client EXCEPT !.logout = "idle", !.token = Null, !.user = Null]
               ELSE [client EXCEPT !.logout = "idle"]
  /\ UNCHANGED <<config, store, req, served, fn>>

(***************************************************************************)
(* Environments.  An environment names the inputs the clients and the      *)
(* outcomes the collaborators may produce; a specification runs the        *)
(* handlers in one environment.                                            *)
(***************************************************************************)
NumSlots == 2

MaxCreate == 1

MaxAnalyze == 1

Slots == 1..NumSlots

\* process.env: each key is set or not.
Configs ==
  [COPERNICUS_USER : BOOLEAN, COPERNICUS_PASS : BOOLEAN,
   GROQ_API_KEY : BOOLEAN, GEMINI_API_KEY : BOOLEAN]

\* A forecast reply: temperature, humidity, wind in tenths; the daily series.
Forecast(temp, hum, wind, code, series) ==
  [kind |-> "ok",
   data |-> [current |-> [temperature_2m |-> temp, relative_humidity_2m |-> hum,
                          wind_speed_10m |-> wind, weather_code |-> code],
             daily   |-> [precipitation_sum |-> series]]]

\* A forecast reply that lacks its current part.
ForecastMalformed ==
  [kind |-> "ok", data |-> [current |-> Undefined, daily |-> Undefined]]

Failed == [kind |-> "fail"]

Product == [Id |-> "P1", ContentDate |-> [Start |-> "2024-06-01"]]

Draw(k) == [ndvi |-> k, healthy |-> k, moderate |-> k, stressed |-> k, alert |-> k]

Reply(content) == [kind |-> "reply", content |-> content]

Throw == [kind |-> "throw"]

\* The replies a language-model provider may give.
AiOutcomes ==
  {Throw, Reply(Undefined), Reply(Str(<<>>)), Reply(Str(<<"prose">>)),
   Reply(Str(<<"{insight}">>)), Reply(Str(<<"\n", "{insight}", "\n">>)),
   Reply(Str(<<"<fence-json>", "\n", "{insight}", "\n", "<fence>">>)),
   Reply(Str(<<"prose", "{insight}">>)),
   Reply(Str(<<"null">>)), Reply(Str(<<"{}">>)), Reply(Str(<<"[]">>)),
   Reply(Str(<<"7">>))}

AnalyzeBodies(ids) ==
  [field_id : ids, lat : {Undefined, Num(0), Num(45)},
   lon : {Undefined, Num(0), Num(30)}]

CreateBodies(crops) ==
  [name : {"Pole"}, area_hectares : {Num(10)}, crop_type : crops]

\* The forecast reply used where the weather is not the subject.
ForecastFair == Forecast(284, 600, 100, 2, <<Num(20), Null, Num(31)>>)

ProductFound == [kind |-> "ok", value |-> <<Product>>]

NoProduct == [kind |-> "ok", value |-> <<>>]

\* Every imagery configuration and every failure pattern of the collaborators
\* and of the store (the forecast replies that cannot be read are in
\* EnvWeather).
EnvFlow ==
  [configs         |-> [COPERNICUS_USER : BOOLEAN, COPERNICUS_PASS : BOOLEAN,
                        GROQ_API_KEY : BOOLEAN, GEMINI_API_KEY : {FALSE}],
   users           |-> {"u1"},
   createBodies    |-> CreateBodies({Undefined}),
   analyzeBodies   |-> AnalyzeBodies({Num(1), Undefined}),
   months          |-> {6},
   tokenOutcomes   |-> {"ok", "fail"},
   searchOutcomes  |-> {Failed, NoProduct, ProductFound},
   draws           |-> {Draw(50)},
   selectOutcomes  |-> {"ok", "error"},
   weatherOutcomes |-> {Failed, ForecastFair},
   aiOutcomes      |-> {Throw, Reply(Str(<<"{insight}">>))},
   writeOutcomes   |-> {"ok", "error"},
   createOutcomes  |-> {"ok", "error", "tables_missing"},
   maxCreate       |-> MaxCreate,
   maxAnalyze      |-> MaxAnalyze,
   maxDelete       |-> 0,
   concurrent      |-> FALSE]

\* Every reply of the language-model providers, under each choice of provider.
EnvAi ==
  [configs         |-> [COPERNICUS_USER : {TRUE}, COPERNICUS_PASS : {TRUE},
                        GROQ_API_KEY : BOOLEAN, GEMINI_API_KEY : BOOLEAN],
   users           |-> {"u1"},
   createBodies    |-> CreateBodies({Undefined}),
   analyzeBodies   |-> [field_id : {Num(1)}, lat : {Num(45)}, lon : {Num(30)}],
   months          |-> {6},
   tokenOutcomes   |-> {"ok"},
   searchOutcomes  |-> {NoProduct, ProductFound},
   draws           |-> {Draw(50)},
   selectOutcomes  |-> {"ok"},
   weatherOutcomes |-> {ForecastFair},
   aiOutcomes      |-> AiOutcomes,
   writeOutcomes   |-> {"ok", "error"},
   createOutcomes  |-> {"ok"},
   maxCreate       |-> MaxCreate,
   maxAnalyze      |-> MaxAnalyze,
   maxDelete       |-> 0,
   concurrent      |-> FALSE]

ConfigAll ==
  [COPERNICUS_USER |-> TRUE, COPERNICUS_PASS |-> TRUE,
   GROQ_API_KEY |-> TRUE, GEMINI_API_KEY |-> FALSE]

\* Every month, every crop type, the range of the index.
EnvNorm ==
  [configs         |-> {ConfigAll},
   users           |-> {"u1"},
   createBodies    |-> CreateBodies({Undefined, Str(<<"Kukuruza">>)}),
   analyzeBodies   |-> [field_id : {Num(1)}, lat : {Num(45)}, lon : {Num(30)}],
   months          |-> 0..11,
   tokenOutcomes   |-> {"ok"},
   searchOutcomes  |-> {NoProduct, ProductFound},
   draws           |-> {Draw(0), Draw(35), Draw(99)},
   selectOutcomes  |-> {"ok", "error"},
   weatherOutcomes |-> {Failed},
   aiOutcomes      |-> {Reply(Str(<<"{insight}">>))},
   writeOutcomes   |-> {"ok"},
   createOutcomes  |-> {"ok"},
   maxCreate       |-> MaxCreate,
   maxAnalyze      |-> MaxAnalyze,
   maxDelete       |-> 0,
   concurrent      |-> FALSE]

\* The forecast replies on both sides of each threshold of the stress chain:
\* temperature 25, 30 and 0 degrees, humidity 85 percent, rain 5 mm.
StressForecasts ==
  {Forecast(t, h, 100, 0, rain) :
     t \in {-6, -4, 254, 264, 304, 306},
     h \in {850, 856},
     rain \in {<<Num(20), Null, Num(24)>>, <<Num(46)>>}}

\* The weather and the index around the thresholds of the stress chain.
EnvStress ==
  [configs         |-> {ConfigAll},
   users           |-> {"u1"},
   createBodies    |-> CreateBodies({Undefined}),
   analyzeBodies   |-> [field_id : {Num(1)}, lat : {Num(45)}, lon : {Num(30)}],
   months          |-> {6},
   tokenOutcomes   |-> {"ok"},
   searchOutcomes  |-> {NoProduct, ProductFound},
   draws           |-> {Draw(34), Draw(35), Draw(99)},
   selectOutcomes  |-> {"ok"},
   weatherOutcomes |-> StressForecasts \cup {Failed},
   aiOutcomes      |-> {Reply(Str(<<"{insight}">>))},
   writeOutcomes   |-> {"ok"},
   createOutcomes  |-> {"ok"},
   maxCreate       |-> MaxCreate,
   maxAnalyze      |-> MaxAnalyze,
   maxDelete       |-> 0,
   concurrent      |-> FALSE]

\* The draws of Math.random(): every second value k/100 and the largest, for
\* the five draws alike, and two mixed draws.
MockDraws ==
  {Draw(k) : k \in {2 * i : i \in 0..49} \cup {99}}
    \cup {[ndvi |-> 0, healthy |-> 99, moderate |-> 0, stressed |-> 99, alert |-> 81],
          [ndvi |-> 99, healthy |-> 0, moderate |-> 99, stressed |-> 0, alert |-> 80]}

\* Every way into the synthetic fallback, and every draw.
EnvMock ==
  [configs         |-> [COPERNICUS_USER : BOOLEAN, COPERNICUS_PASS : {TRUE},
                        GROQ_API_KEY : {TRUE}, GEMINI_API_KEY : {FALSE}],
   users           |-> {"u1"},
   createBodies    |-> CreateBodies({Undefined}),
   analyzeBodies   |-> [field_id : {Num(1)}, lat : {Num(45)}, lon : {Num(30)}],
   months          |-> {6},
   tokenOutcomes   |-> {"ok", "fail"},
   searchOutcomes  |-> {Failed, NoProduct, ProductFound},
   draws           |-> MockDraws,
   selectOutcomes  |-> {"ok"},
   weatherOutcomes |-> {ForecastFair},
   aiOutcomes      |-> {Reply(Str(<<"{insight}">>))},
   writeOutcomes   |-> {"ok"},
   createOutcomes  |-> {"ok"},
   maxCreate       |-> MaxCreate,
   maxAnalyze      |-> MaxAnalyze,
   maxDelete       |-> 0,
   concurrent      |-> FALSE]

MaxRepeat == 2

MaxDelete == 1

\* The same analyze request repeated, every write succeeding, with the field
\* created and deleted around it.
EnvRepeat ==
  [configs         |-> {ConfigAll},
   users           |-> {"u1"},
   createBodies    |-> CreateBodies({Undefined}),
   analyzeBodies   |-> [field_id : {Num(1)}, lat : {Num(45)}, lon : {Num(30)}],
   months          |-> {6},
   tokenOutcomes   |-> {"ok"},
   searchOutcomes  |-> {NoProduct, ProductFound},
   draws           |-> {Draw(50)},
   selectOutcomes  |-> {"ok"},
   weatherOutcomes |-> {ForecastFair},
   aiOutcomes      |-> {Reply(Str(<<"{insight}">>))},
   writeOutcomes   |-> {"ok"},
   createOutcomes  |-> {"ok"},
   maxCreate       |-> MaxCreate,
   maxAnalyze      |-> MaxRepeat,
   maxDelete       |-> MaxDelete,
   concurrent      |-> FALSE]

MaxConcurrent == 2

\* Three fields created earlier: two of user u1, one of user u2.
ThreeFields ==
  (1 :> newField("u1", [name |-> "Pole", area_hectares |-> Num(10),
                         crop_type |-> Undefined]))
    @@ (2 :> newField("u1", [name |-> "Sad", area_hectares |-> Num(4),
                              crop_type |-> Str(<<"Kukuruza">>)]))
    @@ (3 :> newField("u2", [name |-> "Lug", area_hectares |-> Num(7),
                              crop_type |-> Undefined]))

\* Requests of the owners for their fields, handled at the same time.
EnvConcurrent ==
  [configs         |-> {ConfigAll},
   users           |-> {"u1", "u2"},
   analyzeBodies   |-> [field_id : {Num(1), Num(2), Num(3)}, lat : {Num(45)},
                        lon : {Num(30)}],
   months          |-> {6},
   tokenOutcomes   |-> {"ok"},
   searchOutcomes  |-> {NoProduct, ProductFound},
   draws           |-> {Draw(10)},
   selectOutcomes  |-> {"ok"},
   weatherOutcomes |-> {ForecastFair},
   aiOutcomes      |-> {Reply(Str(<<"{insight}">>))},
   writeOutcomes   |-> {"ok"},
   maxAnalyze      |-> MaxConcurrent,
   concurrent      |-> TRUE]

MaxSettings == 1

MaxRead == 1

\* Every operation of the server that reaches the store.
EnvOps ==
  [configs         |-> {ConfigAll},
   users           |-> {"u1"},
   createBodies    |-> CreateBodies({Undefined}),
   analyzeBodies   |-> [field_id : {Num(1)}, lat : {Num(45)}, lon : {Num(30)}],
   settingsBodies  |-> [name : {Str(<<"Ivan">>)}, settings : {Undefined}],
   months          |-> {6},
   tokenOutcomes   |-> {"ok"},
   searchOutcomes  |-> {NoProduct, ProductFound},
   draws           |-> {Draw(50)},
   selectOutcomes  |-> {"ok"},
   weatherOutcomes |-> {ForecastFair},
   aiOutcomes      |-> {Reply(Str(<<"{insight}">>))},
   writeOutcomes   |-> {"ok"},
   createOutcomes  |-> {"ok", "error"},
   maxCreate       |-> MaxCreate,
   maxAnalyze      |-> MaxAnalyze,
   maxDelete       |-> MaxDelete,
   maxSettings     |-> MaxSettings,
   maxRead         |-> MaxRead,
   concurrent      |-> FALSE]

\* Two users: either creates a field, either analyzes or deletes field 1.
EnvCross ==
  [configs         |-> {ConfigAll},
   users           |-> {"u1", "u2"},
   createBodies    |-> CreateBodies({Undefined}),
   analyzeBodies   |-> [field_id : {Num(1)}, lat : {Num(45)}, lon : {Num(30)}],
   months          |-> {6},
   tokenOutcomes   |-> {"ok"},
   searchOutcomes  |-> {NoProduct, ProductFound},
   draws           |-> {Draw(50)},
   selectOutcomes  |-> {"ok"},
   weatherOutcomes |-> {ForecastFair},
   aiOutcomes      |-> {Reply(Str(<<"{insight}">>))},
   writeOutcomes   |-> {"ok"},
   createOutcomes  |-> {"ok"},
   maxCreate       |-> MaxCreate,
   maxAnalyze      |-> MaxAnalyze,
   maxDelete       |-> MaxDelete,
   concurrent      |-> FALSE]

\* A forecast reply that has its current part and no daily part.
ForecastNoDaily ==
  [kind |-> "ok",
   data |-> [current |-> [temperature_2m |-> 284, relative_humidity_2m |-> 600,
                          wind_speed_10m |-> 100, weather_code |-> 2],
             daily   |-> Undefined]]

\* A forecast reply whose daily part lacks the precipitation series.
ForecastNoSeries ==
  [kind |-> "ok",
   data |-> [current |-> [temperature_2m |-> 284, relative_humidity_2m |-> 600,
                          wind_speed_10m |-> 100, weather_code |-> 2],
             daily   |-> [time |-> <<>>]]]

\* Every month, with the forecast request failing, answering a reply that
\* cannot be read, and answering a forecast.
EnvWeather ==
  [configs         |-> {ConfigAll},
   users           |-> {"u1"},
   createBodies    |-> CreateBodies({Undefined}),
   analyzeBodies   |-> [field_id : {Num(1)}, lat : {Num(45)}, lon : {Num(30)}],
   months          |-> 0..11,
   tokenOutcomes   |-> {"ok"},
   searchOutcomes  |-> {NoProduct, ProductFound},
   draws           |-> {Draw(50)},
   selectOutcomes  |-> {"ok"},
   weatherOutcomes |-> {Failed, ForecastMalformed, ForecastNoDaily,
                        ForecastNoSeries, ForecastFair},
   aiOutcomes      |-> {Reply(Str(<<"{insight}">>))},
   writeOutcomes   |-> {"ok"},
   createOutcomes  |-> {"ok"},
   maxCreate       |-> MaxCreate,
   maxAnalyze      |-> MaxAnalyze,
   maxDelete       |-> 0,
   concurrent      |-> FALSE]

MaxAuth == 2

\* The Authorization headers tried: none, empty, a scheme alone, a scheme
\* and a space, two spaces before the token, and bearer tokens the provider
\* knows (t1, t2) or does not (bad).
AuthHeaders ==
  {Undefined, Str(<<>>), Str(<<"Bearer">>), Str(<<"Bearer", " ">>),
   Str(<<"Bearer", " ", " ", "t1">>), Str(<<"Bearer", " ", "t1">>),
   Str(<<"Bearer", " ", "t2">>), Str(<<"Bearer", " ", "bad">>)}

\* Requests for the guarded routes under every header and every answer of
\* the auth provider.
EnvAuth ==
  [configs         |-> {ConfigAll},
   users           |-> {"u1", "u2"},
   headers         |-> AuthHeaders,
   authOutcomes    |-> {"ok", "error", "nouser", "throw"},
   bodies          |-> [analyze  |-> [field_id : {Num(1)}, lat : {Num(45)},
                                      lon : {Num(30)}],
                        create   |-> CreateBodies({Undefined}),
                        delete   |-> [id : {1}],
                        settings |-> [name : {Str(<<"Ivan">>)}, settings : {Undefined}],
                        activity |-> {Undefined}],
   months          |-> {6},
   tokenOutcomes   |-> {"ok"},
   searchOutcomes  |-> {NoProduct, ProductFound},
   draws           |-> {Draw(50)},
   selectOutcomes  |-> {"ok"},
   weatherOutcomes |-> {ForecastFair},
   aiOutcomes      |-> {Reply(Str(<<"{insight}">>))},
   writeOutcomes   |-> {"ok"},
   createOutcomes  |-> {"ok"},
   maxAuth         |-> MaxAuth,
   concurrent      |-> FALSE]

MaxRace == 2

\* Requests of the owner for one field, handled at the same time, the search
\* finding a product for some and none for others, every write succeeding.
EnvRace ==
  [configs         |-> {ConfigAll},
   users           |-> {"u1"},
   analyzeBodies   |-> [field_id : {Num(1)}, lat : {Num(45)}, lon : {Num(30)}],
   months          |-> {6},
   tokenOutcomes   |-> {"ok"},
   searchOutcomes  |-> {NoProduct, ProductFound},
   draws           |-> {Draw(10)},
   selectOutcomes  |-> {"ok"},
   weatherOutcomes |-> {ForecastFair},
   aiOutcomes      |-> {Reply(Str(<<"{insight}">>))},
   writeOutcomes   |-> {"ok"},
   maxAnalyze      |-> MaxRace,
   concurrent      |-> TRUE]

(***************************************************************************)
(* Specifications.                                                         *)
(***************************************************************************)
InitIn(E) ==
  /\ config \in E.configs
  /\ fields = <<>>
  /\ analyses = <<>>
  /\ activity_log = <<>>
  /\ nextId = [field |-> 1, analysis |-> 1]
  /\ req = [s \in Slots |-> Idle]
  /\ profiles = [u \in E.users |-> [name |-> <<"Fermer">>, settings |-> <<"default">>]]
  /\ served = [auth |-> 0, analyze |-> 0, create |-> 0, delete |-> 0, settings |-> 0,
               read |-> 0]
  /\ fn = [op |-> "none", arg |-> 0, out |-> 0]
  /\ client = ClientStart

\* A request is accepted into the lowest free slot; where requests are served
\* one at a time, only when no other request is being handled.
canStart(E, s) ==
  /\ req[s].kind = "idle"
  /\ \A t \in Slots : t < s => req[t].kind # "idle"
  /\ E.concurrent \/ \A t \in Slots : req[t].kind = "idle"

\* An analyze request is accepted.
AnalyzeStart(E) ==
  \E s \in Slots, u \in E.users, b \in E.analyzeBodies :
    served.analyze < E.maxAnalyze /\ canStart(E, s) /\ StartAnalyze(s, u, b)

\* A handler of POST /api/analyze resumes at its await.
AnalyzeResume(E) ==
  \E s \in Slots :
    \/ \E out \in E.tokenOutcomes : TokenReply(s, out)
    \/ \E out \in E.searchOutcomes : SearchReply(s, out)
    \/ \E d \in E.draws : MockDelay(s, d)
    \/ \E out \in E.selectOutcomes, m \in E.months : SelectReply(s, out, m)
    \/ \E out \in E.weatherOutcomes : WeatherReply(s, out)
    \/ \E out \in E.aiOutcomes : AiReply(s, out)
    \/ \E out \in E.writeOutcomes : InsertReply(s, out)
    \/ \E out \in E.writeOutcomes : UpdateReply(s, out)
    \/ \E out \in E.writeOutcomes : LogReply(s, out)
    \/ Close(s)

AnalyzeStep(E) == AnalyzeStart(E) \/ AnalyzeResume(E)

CreateStep(E) ==
  \E s \in Slots :
    \/ \E u \in E.users, b \in E.createBodies :
         served.create < E.maxCreate /\ canStart(E, s) /\ StartCreate(s, u, b)
    \/ \E out \in E.createOutcomes : CreateInsertReply(s, out)
    \/ \E out \in E.writeOutcomes : CreateLogReply(s, out)

DeleteStep(E) ==
  \E s \in Slots :
    \/ \E u \in E.users, id \in 1..E.maxCreate :
         served.delete < E.maxDelete /\ canStart(E, s) /\ StartDelete(s, u, id)
    \/ \E out \in E.writeOutcomes : DeleteReply(s, out)
    \/ \E out \in E.writeOutcomes : DeleteLogReply(s, out)

SettingsStep(E) ==
  \E s \in Slots :
    \/ \E u \in E.users, b \in E.settingsBodies :
         served.settings < E.maxSettings /\ canStart(E, s) /\ StartSettings(s, u, b)
    \/ \E out \in E.writeOutcomes : SettingsReply(s, out)

ReadStep(E) ==
  \E s \in Slots :
    \/ \E u \in E.users :
         served.read < E.maxRead /\ canStart(E, s) /\ StartActivity(s, u)
    \/ \E out \in E.writeOutcomes : ActivityReply(s, out)

Init == InitIn(EnvFlow)

Next == AnalyzeStep(EnvFlow) \/ CreateStep(EnvFlow)

Spec == Init /\ [][Next]_vars

InitAi == InitIn(EnvAi)

NextAi == AnalyzeStep(EnvAi) \/ CreateStep(EnvAi)

SpecAi == InitAi /\ [][NextAi]_vars

InitNorm == InitIn(EnvNorm)

NextNorm == AnalyzeStep(EnvNorm) \/ CreateStep(EnvNorm)

SpecNorm == InitNorm /\ [][NextNorm]_vars

InitStress == InitIn(EnvStress)

NextStress == AnalyzeStep(EnvStress) \/ CreateStep(EnvStress)

SpecStress == InitStress /\ [][NextStress]_vars

InitMock == InitIn(EnvMock)

NextMock == AnalyzeStep(EnvMock) \/ CreateStep(EnvMock)

SpecMock == InitMock /\ [][NextMock]_vars

InitRepeat == InitIn(EnvRepeat)

NextRepeat == AnalyzeStep(EnvRepeat) \/ CreateStep(EnvRepeat) \/ DeleteStep(EnvRepeat)

SpecRepeat == InitRepeat /\ [][NextRepeat]_vars

\* The store after the three fields of ThreeFields were created.
InitConcurrent ==
  /\ config \in EnvConcurrent.configs
  /\ fields = ThreeFields
  /\ analyses = <<>>
  /\ activity_log =
       [i \in 1..3 |->
          [user_id |-> ThreeFields[i].user_id, type |-> "create_field",
           details |-> [name |-> ThreeFields[i].name,
                        n |-> ThreeFields[i].area_hectares]]]
  /\ nextId = [field |-> 4, analysis |-> 1]
  /\ profiles = [u \in EnvConcurrent.users |->
                   [name |-> <<"Fermer">>, settings |-> <<"default">>]]
  /\ req = [s \in Slots |-> Idle]
  /\ served = [auth |-> 0, analyze |-> 0, create |-> 3, delete |-> 0, settings |-> 0,
               read |-> 0]
  /\ fn = [op |-> "none", arg |-> 0, out |-> 0]
  /\ client = ClientStart

\* No request for field f was accepted yet.
untouched(f) ==
  /\ \A t \in Slots : req[t].kind = "analyze" => req[t].body.field_id # Num(f)
  /\ rowsOf(analyses, f) = <<>>

\* An owner's request for a field no other request names is accepted, in any
\* free slot, while other requests are being handled.
ConcurrentStart(E) ==
  \E s \in Slots, u \in E.users, b \in E.analyzeBodies :
    /\ served.analyze < E.maxAnalyze
    /\ ownsField(fields, u, b.field_id.v) /\ untouched(b.field_id.v)
    /\ canStart(E, s)
    /\ StartAnalyze(s, u, b)

NextConcurrent == ConcurrentStart(EnvConcurrent) \/ AnalyzeResume(EnvConcurrent)

SpecConcurrent == InitConcurrent /\ [][NextConcurrent]_vars

InitOps == InitIn(EnvOps)

NextOps ==
  \/ AnalyzeStep(EnvOps)
  \/ CreateStep(EnvOps)
  \/ DeleteStep(EnvOps)
  \/ SettingsStep(EnvOps)
  \/ ReadStep(EnvOps)

SpecOps == InitOps /\ [][NextOps]_vars

InitCross == InitIn(EnvCross)

NextCross == AnalyzeStep(EnvCross) \/ CreateStep(EnvCross) \/ DeleteStep(EnvCross)

SpecCross == InitCross /\ [][NextCross]_vars

InitWeather == InitIn(EnvWeather)

NextWeather == AnalyzeStep(EnvWeather) \/ CreateStep(EnvWeather)

SpecWeather == InitWeather /\ [][NextWeather]_vars

\* A request arrives at requireAuth, or getUser answers.
AuthStep(E) ==
  \E s \in Slots :
    \/ \E route \in DOMAIN E.bodies, h \in E.headers :
         \E b \in E.bodies[route] :
           served.auth < E.maxAuth /\ canStart(E, s) /\ Arrive(s, route, h, b)
    \/ \E out \in E.authOutcomes : AuthReply(s, out)

\* A handler of a guarded route other than POST /api/analyze resumes.
RouteResume(E) ==
  \E s \in Slots :
    \/ \E out \in E.createOutcomes : CreateInsertReply(s, out)
    \/ \E out \in E.writeOutcomes : CreateLogReply(s, out)
    \/ \E out \in E.writeOutcomes : DeleteReply(s, out)
    \/ \E out \in E.writeOutcomes : DeleteLogReply(s, out)
    \/ \E out \in E.writeOutcomes : SettingsReply(s, out)
    \/ \E out \in E.writeOutcomes : ActivityReply(s, out)

InitAuth == InitIn(EnvAuth)

NextAuth == AuthStep(EnvAuth) \/ AnalyzeResume(EnvAuth) \/ RouteResume(EnvAuth)

SpecAuth == InitAuth /\ [][NextAuth]_vars

NextRace == AnalyzeStep(EnvRace)

SpecRace == InitConcurrent /\ [][NextRace]_vars

(***************************************************************************)
(* The pure helpers applied to one input.                                  *)
(***************************************************************************)
MaxCode == 99

\* The weather codes tried: below zero, the WMO range, beyond it.
WeatherCodes == (-5..MaxCode) \cup {999}

ApplyWmo(code) ==
  /\ fn' = [op |-> "wmoToCondition", arg |-> code, out |-> wmoToCondition(code)]
  /\ UNCHANGED <<config, store, req, served, client>>

EnvFn == [configs |-> {ConfigAll}, users |-> {"u1"}]

InitFn == InitIn(EnvFn)

NextFn == \E code \in WeatherCodes : ApplyWmo(code)

SpecFn == InitFn /\ [][NextFn]_vars

MaxSeries == 3

\* The daily series tried: every series of at most MaxSeries values, each
\* a number of tenths of a millimetre or a missing value.
RainSeries ==
  UNION {[1..n -> {Num(0), Num(4), Num(21), Null, Undefined}] : n \in 0..MaxSeries}

\* The weather try block applied to a forecast with the series.
ApplyRain(series) ==
  /\ fn' = [op |-> "rain_14d", arg |-> series,
            out |-> weatherAfter(Forecast(284, 600, 100, 2, series), 6).rain_14d]
  /\ UNCHANGED <<config, store, req, served, client>>

NextRain == \E series \in RainSeries : ApplyRain(series)

SpecRain == InitFn /\ [][NextRain]_vars

MaxPoints == 3

\* The polygons submitted: every list of at most MaxPoints <<lat, lon>>
\* points out of six.
Polygons ==
  UNION {[1..n -> {<<lat, lon>> : lat \in {50, 51}, lon \in {30, 31, 32}}] :
           n \in 0..MaxPoints}

\* A polygon is submitted to POST /api/fields, which stores
\* toGeoJSONPolygon of it, and read back through GET /api/fields, which
\* answers fromGeoJSONPolygon of the stored column.
ApplyPolygon(P) ==
  /\ fn' = [op |-> "polygon", arg |-> P,
            out |-> fromGeoJSONPolygon(toGeoJSONPolygon(P))]
  /\ UNCHANGED <<config, store, req, served, client>>

NextPolygon == \E P \in Polygons : ApplyPolygon(P)

SpecPolygon == InitFn /\ [][NextPolygon]_vars

MaxEvents == 2

MaxLogout == 1

\* The sessions the auth library reports are none, or one with an access
\* token.
NextClient ==
  \/ \E session \in {Null, Str(<<"t1">>), Str(<<"t2">>)} : SessionChecked(session)
  \/ \E session \in {Null, Str(<<"t1">>), Str(<<"t2">>)} :
       AuthEvent(session, MaxEvents)
  \/ \E i \in 1..(MaxEvents + 1), out \in {"ok", "fail"} : FetchReply(i, out)
  \/ StartLogout(MaxLogout)
  \/ \E out \in {"ok", "fail"} : LogoutDone(out)

SpecClient == InitFn /\ [][NextClient]_vars

(***************************************************************************)
(* Properties.                                                             *)
(***************************************************************************)
Analyzing(s) == req[s].kind = "analyze"

Answered(s) == req[s].pc = "done"

Succeeded(s) ==
  Analyzing(s) /\ Answered(s) /\ req[s].resp.status = 200 /\ req[s].resp.body.success

\* The handler has issued the call named c.
Called(s, c) == \E i \in DOMAIN req[s].calls : req[s].calls[i] = c

Quiescent == \A s \in Slots : req[s].kind = "idle"

\* The rows of activity_log of one type written for one user.
logRows(log, u, type) == SelectSeq(log, LAMBDA row : row.user_id = u /\ row.type = type)

NumericKeys ==
  {"ndvi_average", "healthy_percent", "moderate_percent", "stressed_percent",
   "ndvi_deviation", "seasonal_norm"}

\* C1: every analyze request whose lat and lon are valid coordinates (lat in
\* [-90, 90], lon in [-180, 180], 0 included) is answered success: true with
\* the six numeric fields present as numbers.
C1_ValidCoordinatesSucceed ==
  \A s \in Slots :
    (/\ Analyzing(s) /\ Answered(s)
     /\ req[s].body.lat.t = "number" /\ req[s].body.lon.t = "number"
     /\ req[s].body.lat.v \in -90..90 /\ req[s].body.lon.v \in -180..180)
    => /\ Succeeded(s)
       /\ \A k \in NumericKeys :
            k \in DOMAIN req[s].resp.body /\ req[s].resp.body[k] \in Int

\* C2: an analyze request answered success: true (for a field the caller owned
\* when the request arrived) has added exactly one analyses row for the field,
\* replaced the field's last_analysis by this analysis and added exactly one
\* activity_log row of type analysis for the caller.
C2_SuccessMeansThreeWrites ==
  \A s \in Slots :
    (/\ Analyzing(s) /\ Succeeded(s)
     /\ req[s].body.field_id.t = "number"
     /\ ownsField(req[s].pre.fields, req[s].user, req[s].body.field_id.v))
    => LET f == req[s].body.field_id.v
       IN  /\ Len(rowsOf(analyses, f)) = Len(rowsOf(req[s].pre.analyses, f)) + 1
           /\ f \in DOMAIN fields
           /\ fields[f].last_analysis = req[s].analysisResult
           /\ Len(logRows(activity_log, req[s].user, "analysis"))
                = Len(logRows(req[s].pre.activity_log, req[s].user, "analysis")) + 1

\* C3: after any sequence of create-field and analyze requests run one at a
\* time, each field with at least one analyses row has a last_analysis whose
\* index, percentages, weather and insight are those of its latest row.
C3_SnapshotIsLatestRow ==
  Quiescent =>
    \A f \in DOMAIN fields :
      LET rows == rowsOf(analyses, f)
          last == rows[Len(rows)]
          snap == fields[f].last_analysis
      IN  rows # <<>> =>
            /\ snap.ndvi_average = last.ndvi_average
            /\ snap.healthy_percent = last.healthy_percent
            /\ snap.moderate_percent = last.moderate_percent
            /\ snap.stressed_percent = last.stressed_percent
            /\ "weather" \in DOMAIN snap /\ snap.weather = last.weather_data
            /\ "ai_insight" \in DOMAIN snap /\ snap.ai_insight = last.ai_insight

\* The texts of the environments that are not the text of one JSON value.
UnparseableTexts ==
  {<<>>, <<"prose">>, <<"prose", "{insight}">>,
   <<"<fence-json>", "\n", "{insight}", "\n", "<fence>">>}

FixedPlaceholder ==
  [t |-> "object",
   v |-> [status_title |-> "Analiz zavershen", summary |-> "Dannye obrabotany.",
          weather_impact |-> "Net dannyh.", recommendations |-> <<>>]]

\* The handler has its insight (it awaits a write, or has answered).
InsightDecided(s) ==
  Analyzing(s) /\ (req[s].pc \in {"insert", "update", "log"} \/ Succeeded(s))

\* The analyses row this request inserted, if it did: the latest row.
InsertedRow(s) ==
  /\ req[s].pc \in {"update", "log", "done"}
  /\ Len(analyses) > Len(req[s].pre.analyses)

\* C4: when the language-model call throws, returns empty text or text that is
\* not JSON, or no provider is configured, the request still succeeds and
\* ai_insight, in the response and in the persisted row, is the fixed
\* placeholder with its four fields and no recommendations.
C4_FailedInsightIsPlaceholder ==
  \A s \in Slots :
    (InsightDecided(s) /\ req[s].rawResponse \in UnparseableTexts)
    => /\ req[s].aiInsight = FixedPlaceholder
       /\ Answered(s) =>
            Succeeded(s) /\ req[s].resp.body.ai_insight = FixedPlaceholder
       /\ InsertedRow(s) => analyses[Len(analyses)].ai_insight = FixedPlaceholder

\* C4 witness: Groq answered prose, the row was inserted and the request
\* succeeded with the placeholder.
C4_Witness ==
  \E s \in Slots :
    /\ Succeeded(s) /\ Called(s, "groq") /\ req[s].rawResponse = <<"prose">>
    /\ InsertedRow(s)
    /\ analyses[Len(analyses)].ai_insight = FixedPlaceholder
    /\ req[s].resp.body.ai_insight = FixedPlaceholder

\* C5: when COPERNICUS_USER or COPERNICUS_PASS is not set, neither the token
\* request nor the catalogue search is issued and the base is the synthetic
\* one: map_url null, no product_id, no acquisition_date.
C5_NoCredentialsNoImagery ==
  \A s \in Slots :
    (Analyzing(s) /\ ~(config.COPERNICUS_USER /\ config.COPERNICUS_PASS))
    => /\ ~Called(s, "copernicus-token") /\ ~Called(s, "copernicus-search")
       /\ req[s].pc \notin {"token", "search"}
       /\ req[s].pc \in {"select", "weather", "ai", "insert", "update", "log"}
            => /\ req[s].analysisResult.map_url = Null
               /\ "product_id" \notin DOMAIN req[s].analysisResult
               /\ "acquisition_date" \notin DOMAIN req[s].analysisResult
       /\ Succeeded(s)
            => /\ req[s].resp.body.map_url = Null
               /\ "product_id" \notin DOMAIN req[s].resp.body
               /\ "acquisition_date" \notin DOMAIN req[s].resp.body

\* C5 witness: a request succeeded with the user name set and the password not.
C5_Witness ==
  \E s \in Slots :
    /\ Analyzing(s) /\ Succeeded(s)
    /\ config.COPERNICUS_USER /\ ~config.COPERNICUS_PASS
    /\ Called(s, "timer") /\ req[s].resp.body.map_url = Null

ResponseKeys ==
  NumericKeys \cup {"alert", "map_url", "weather", "ai_insight", "stress_cause"}

\* C6: a request that passes the coordinate check ends, under every
\* combination of failures of the token request, the search, the forecast
\* request and the language-model call, in a success: true response that
\* carries all of its data; none of the failures gives an error response.
C6_ProviderFailuresDegrade ==
  \A s \in Slots :
    (/\ Analyzing(s) /\ Answered(s)
     /\ ~Falsy(req[s].body.lat) /\ ~Falsy(req[s].body.lon))
    => /\ req[s].resp.status = 200
       /\ req[s].resp.body.success = TRUE
       /\ "error" \notin DOMAIN req[s].resp.body
       /\ ResponseKeys \subseteq DOMAIN req[s].resp.body

\* C6 witness: the search was issued and failed, the forecast request failed
\* and the Groq call gave no usable text, and the request succeeded.
C6_Witness ==
  \E s \in Slots :
    /\ Analyzing(s) /\ Succeeded(s)
    /\ Called(s, "copernicus-search") /\ Called(s, "timer")
    /\ req[s].resp.body.map_url = Null
    /\ req[s].resp.body.weather = [temp |-> 25, condition |-> "Clear",
                                   humidity |-> 60, wind |-> 50, rain_14d |-> 0]
    /\ Called(s, "groq") /\ req[s].rawResponse = <<>>
    /\ req[s].resp.body.ai_insight = FixedPlaceholder

\* C7: a request in which lat or lon is missing is answered with an error
\* status and a body of an error string and success: false; it issues no call
\* and leaves analyses, fields and activity_log as they were.
C7_MissingCoordinatesRejected ==
  \A s \in Slots :
    (Analyzing(s) /\ (req[s].body.lat = Undefined \/ req[s].body.lon = Undefined))
    => /\ Answered(s)
       /\ req[s].resp.status >= 400
       /\ DOMAIN req[s].resp.body = {"error", "success"}
       /\ req[s].resp.body.success = FALSE
       /\ req[s].resp.body.error = "Latitude and Longitude are required for analysis."
       /\ req[s].calls = <<>>
       /\ analyses = req[s].pre.analyses
       /\ fields = req[s].pre.fields
       /\ activity_log = req[s].pre.activity_log

\* C7 witness: a request with lat present and lon missing was rejected, a
\* field being in the store.
C7_Witness ==
  \E s \in Slots :
    /\ Analyzing(s) /\ Answered(s)
    /\ req[s].body.lat = Num(45) /\ req[s].body.lon = Undefined
    /\ req[s].resp.status = 500
    /\ DOMAIN fields # {}

ConditionLabels == {"Clear", "Clouds", "Rain", "Snow", "Thunderstorm", "Unknown"}

\* The codes the table of the forecast provider maps to a condition.
MappedCodes ==
  {0} \cup (1..3) \cup (45..48) \cup (51..67) \cup (71..77) \cup (80..82)
      \cup (85..86) \cup (95..99)

\* C8: wmoToCondition maps every integer code to one of the six labels: 0 to
\* Clear, 2 to Clouds, 61 to Rain, 96 to Thunderstorm, and every code outside
\* the mapped ranges, such as 999, to Unknown.
C8_WmoTable ==
  fn.op = "wmoToCondition" =>
    /\ fn.out \in ConditionLabels
    /\ fn.arg = 0 => fn.out = "Clear"
    /\ fn.arg = 2 => fn.out = "Clouds"
    /\ fn.arg = 61 => fn.out = "Rain"
    /\ fn.arg = 96 => fn.out = "Thunderstorm"
    /\ fn.arg = 999 => fn.out = "Unknown"
    /\ fn.arg \notin MappedCodes => fn.out = "Unknown"

\* The stress cause is computed (the handler awaits the model or a write, or
\* has answered).
StressDecided(s) ==
  Analyzing(s) /\ (req[s].pc \in {"ai", "insert", "update", "log"} \/ Succeeded(s))

\* C9: the stress cause is a first-match chain: no stress when the deviation
\* is at least -0.15; else drought when rain_14d < 5 and temp > 25 (also when
\* temp > 30 or humidity > 85), else heat when temp > 30, else disease risk
\* when humidity > 85, else freeze risk when temp < 0 and the index is above
\* 0.3, else growth delay.
C9_StressChain ==
  \A s \in Slots :
    StressDecided(s) =>
      LET dev     == req[s].ndviDeviation
          w       == req[s].weather
          ndvi    == req[s].analysisResult.ndvi_average
          label   == req[s].stressCause
          drought == w.rain_14d < 5 /\ w.temp > 25
          heat    == w.temp > 30
          disease == w.humidity > 85
          freeze  == w.temp < 0 /\ ndvi > 300
      IN  /\ dev >= -150 => label = "Net yavnogo stressa"
          /\ (dev < -150 /\ drought) => label = "Deficit vlagi"
          /\ (dev < -150 /\ ~drought /\ heat) => label = "Teplovoy stress"
          /\ (dev < -150 /\ ~drought /\ ~heat /\ disease)
               => label = "Risk zabolevaniy (Vlazhnost)"
          /\ (dev < -150 /\ ~drought /\ ~heat /\ ~disease /\ freeze)
               => label = "Risk vymerzaniya"
          /\ (dev < -150 /\ ~drought /\ ~heat /\ ~disease /\ ~freeze)
               => label = "Zaderzhka vegetatsii / Pitanie"
          /\ Succeeded(s) => req[s].resp.body.stress_cause = label

\* C9 witness: drought was reported although the heat and the humidity tests
\* held too.
C9_Witness ==
  \E s \in Slots :
    /\ Analyzing(s) /\ Succeeded(s)
    /\ req[s].resp.body.ndvi_deviation < -150
    /\ req[s].resp.body.weather.rain_14d < 5
    /\ req[s].resp.body.weather.temp > 30
    /\ req[s].resp.body.weather.humidity > 85
    /\ req[s].resp.body.stress_cause = "Deficit vlagi"

\* The seasonal norm of the claim, in thousandths.
NormTable(month) ==
  CASE month \in {10, 11, 0, 1, 2} -> 200
    [] month \in {3, 4}            -> 450
    [] month \in {5, 6, 7}         -> 800
    [] month \in {8, 9}            -> 500

\* The seasonal norm is computed (the handler is past the field select).
NormDecided(s) ==
  Analyzing(s)
    /\ (req[s].pc \in {"weather", "ai", "insert", "update", "log"} \/ Succeeded(s))

\* C10: for every month 0..11 and every crop type the seasonal norm is 0.2 in
\* months 10, 11, 0, 1, 2; 0.45 in 3 and 4; 0.8 in 5, 6, 7; 0.5 in 8 and 9;
\* and ndvi_deviation in the response is ndvi_average minus this value.
C10_SeasonalNorm ==
  \A s \in Slots :
    NormDecided(s) =>
      /\ req[s].month \in 0..11
      /\ req[s].seasonalNorm = NormTable(req[s].month)
      /\ req[s].ndviDeviation
           = req[s].analysisResult.ndvi_average - NormTable(req[s].month)
      /\ Succeeded(s) =>
           /\ req[s].resp.body.seasonal_norm = NormTable(req[s].month)
           /\ req[s].resp.body.ndvi_deviation
                = req[s].resp.body.ndvi_average - NormTable(req[s].month)

\* C10 witness: a request for a maize field answered in November with the
\* winter norm.
C10_Witness ==
  \E s \in Slots :
    /\ Analyzing(s) /\ Succeeded(s)
    /\ req[s].month = 10 /\ req[s].cropType = "Kukuruza"
    /\ req[s].resp.body.seasonal_norm = 200
    /\ req[s].resp.body.ndvi_deviation = req[s].resp.body.ndvi_average - 200

\* The handler has its analysis base (it is past the imagery step).
BaseDecided(s) ==
  Analyzing(s)
    /\ (req[s].pc \in {"select", "weather", "ai", "insert", "update", "log"}
          \/ Succeeded(s))

\* The bands of the synthetic base: percentages in hundredths, the index in
\* thousandths.
InBands(a) ==
  /\ a.healthy_percent \in 6500..8500
  /\ a.moderate_percent \in 2000..3000
  /\ a.stressed_percent \in 500..1000
  /\ a.ndvi_average \in 580..780

\* C11: whenever the handler uses the synthetic fallback, for every draw,
\* healthy_percent is in [65, 85], moderate_percent in [20, 30],
\* stressed_percent in [5, 10] and ndvi_average in [0.58, 0.78]: in the
\* handler's base, in the response and in the inserted row.
C11_SyntheticBands ==
  \A s \in Slots :
    (BaseDecided(s) /\ Called(s, "timer"))
    => /\ InBands(req[s].analysisResult)
       /\ Succeeded(s) => InBands(req[s].resp.body)
       /\ InsertedRow(s) => InBands(analyses[Len(analyses)])

\* C11 witness: the largest draw, after a search that found no product, gave
\* the top of each band short of its end, and the row was inserted.
C11_Witness ==
  \E s \in Slots :
    /\ Succeeded(s) /\ Called(s, "copernicus-search") /\ Called(s, "timer")
    /\ InsertedRow(s)
    /\ analyses[Len(analyses)].healthy_percent = 8480
    /\ analyses[Len(analyses)].moderate_percent = 2990
    /\ analyses[Len(analyses)].stressed_percent = 995
    /\ req[s].resp.body.ndvi_average = 778

\* The ids of a sequence of rows.
idsOf(rows) == {rows[i].id : i \in DOMAIN rows}

\* Slot s has its analyses insert resolved in this step.
InsertResolves(s) ==
  Analyzing(s) /\ req[s].pc = "insert" /\ req'[s].pc = "update"

\* C12: the same analyze request repeated, each insert succeeding, adds one
\* analyses row with a new id per request; no step merges, changes or removes
\* an earlier row of a field that exists before and after the step, so the
\* number of rows of an existing field never decreases.
C12_AnalysesAppendOnly ==
  [][\A f \in DOMAIN fields \cap DOMAIN fields' :
       LET old == rowsOf(analyses, f)
           new == rowsOf(analyses', f)
       IN  /\ Len(new) >= Len(old)
           /\ SubSeq(new, 1, Len(old)) = old
           /\ \A s \in Slots :
                (InsertResolves(s) /\ req[s].body.field_id = Num(f)
                   /\ ownsField(fields, req[s].user, f))
                => /\ Len(new) = Len(old) + 1
                   /\ new[Len(new)].id \notin idsOf(analyses)]_vars

\* C12 witness: two requests have left two rows of field 1 that differ in
\* their ids only.
C12_Witness ==
  /\ served.analyze = 2 /\ Quiescent
  /\ 1 \in DOMAIN fields
  /\ Len(rowsOf(analyses, 1)) = 2
  /\ analyses[1].id # analyses[2].id
  /\ [analyses[1] EXCEPT !.id = 0] = [analyses[2] EXCEPT !.id = 0]

\* A step of the analyze handler in slot s writes only rows of its own field
\* and of its own user.
ScopedStep(s) ==
  LET f == req[s].body.field_id.v
      u == req[s].user
  IN  /\ DOMAIN fields' = DOMAIN fields
      /\ \A g \in DOMAIN fields \ {f} :
           fields'[g] = fields[g] /\ rowsOf(analyses', g) = rowsOf(analyses, g)
      /\ \A v \in DOMAIN profiles \ {u} :
           logOf(activity_log', v) = logOf(activity_log, v)
      /\ \A i \in DOMAIN analyses' :
           i > Len(analyses) => analyses'[i].field_id = f
      /\ \A i \in DOMAIN activity_log' :
           i > Len(activity_log) => activity_log'[i].user_id = u

\* What a request that ran alone leaves behind: its row, its snapshot, its
\* log row; a field no request named is as it was created.
SerialResult ==
  /\ \A s \in Slots :
       Succeeded(s) =>
         LET r == req[s]
             f == r.body.field_id.v
             rows == rowsOf(analyses, f)
         IN  /\ Len(rows) = 1
             /\ [rows[1] EXCEPT !.id = 0] = analysisRow(r, 0)
             /\ fields[f].last_analysis = r.analysisResult
             /\ \E i \in DOMAIN activity_log : activity_log[i] = analysisLog(r)
  /\ \A g \in DOMAIN fields : untouched(g) => fields[g] = ThreeFields[g]

\* C13: analyze requests for different fields, interleaved in every way at
\* their awaits, leave the store as running them one after the other does:
\* every step writes only analyses rows of its own field, its own field's
\* last_analysis and activity_log rows of its own user, and each answered
\* request has left what it leaves when it runs alone.
C13_DifferentFieldsSerializable ==
  [][(\A s \in Slots :
        (req[s].kind = "analyze" /\ req'[s] # req[s]) => ScopedStep(s))
     /\ SerialResult']_vars

\* C13 witness: two requests of u1 for fields 1 and 2 were answered, the rows
\* in the order 1, 2 and the log rows in the order 2, 1.
C13_Witness ==
  /\ \A s \in {1, 2} : Succeeded(s) /\ req[s].user = "u1"
  /\ Len(analyses) = 2 /\ analyses[1].field_id = 1 /\ analyses[2].field_id = 2
  /\ activity_log[Len(activity_log)].details.name = "Pole"
  /\ activity_log[Len(activity_log) - 1].details.name = "Sad"
  /\ fields[1].last_analysis.map_url = Null
  /\ fields[2].last_analysis.map_url # Null

\* C14: across every sequence of create-field, delete-field, analyze,
\* update-settings and read-activity requests, no step changes or removes an
\* activity_log row: the log after a step is the log before it, followed by
\* the rows the step added, so each user's rows only grow.
C14_ActivityLogAppendOnly ==
  [][/\ Len(activity_log') >= Len(activity_log)
     /\ SubSeq(activity_log', 1, Len(activity_log)) = activity_log
     /\ \A u \in DOMAIN profiles :
          Len(logOf(activity_log', u)) >= Len(logOf(activity_log, u))]_vars

\* C14 witness: a field was created, analyzed and deleted, the settings were
\* updated and the log was read, and the three log rows are all there.
C14_Witness ==
  /\ Quiescent
  /\ served.settings = 1 /\ served.read = 1 /\ served.delete = 1
  /\ DOMAIN fields = {} /\ analyses = <<>>
  /\ Len(activity_log) = 3
  /\ activity_log[1].type = "create_field"
  /\ activity_log[2].type = "analysis"
  /\ activity_log[3].type = "delete_field"

\* How many times the handler in slot s has issued the call named c.
timesCalled(s, c) == Cardinality({i \in DOMAIN req[s].calls : req[s].calls[i] = c})

\* C15: an analyze request makes at most one language-model call: to Groq
\* when GROQ_API_KEY is set, to Gemini only when GROQ_API_KEY is unset and
\* GEMINI_API_KEY is set, to neither (placeholder insight) when both are
\* unset; a Groq call that failed is not repeated and no Gemini call follows.
C15_AtMostOneModelCall ==
  \A s \in Slots :
    Analyzing(s) =>
      /\ timesCalled(s, "groq") + timesCalled(s, "gemini") <= 1
      /\ Called(s, "groq") => config.GROQ_API_KEY
      /\ Called(s, "gemini") => ~config.GROQ_API_KEY /\ config.GEMINI_API_KEY
      /\ InsightDecided(s) =>
           /\ config.GROQ_API_KEY => Called(s, "groq")
           /\ (~config.GROQ_API_KEY /\ config.GEMINI_API_KEY) => Called(s, "gemini")
           /\ (~config.GROQ_API_KEY /\ ~config.GEMINI_API_KEY)
                => /\ ~Called(s, "groq") /\ ~Called(s, "gemini")
                   /\ req[s].aiInsight = FixedPlaceholder

\* C15 witness: both keys are set, the Groq call threw, and the request
\* succeeded with one Groq call, no Gemini call and the placeholder.
C15_Witness ==
  \E s \in Slots :
    /\ Succeeded(s)
    /\ config.GROQ_API_KEY /\ config.GEMINI_API_KEY
    /\ req[s].reply = Throw
    /\ timesCalled(s, "groq") = 1 /\ ~Called(s, "gemini")
    /\ req[s].resp.body.ai_insight = FixedPlaceholder

\* The search of this request returned a product: the search was issued and
\* the fallback timer was never started.
ProductReturned(s) == Called(s, "copernicus-search") /\ ~Called(s, "timer")

\* C16: in every success response map_url is non-null exactly when the search
\* returned a product in this request; on the synthetic path map_url is null
\* and product_id and acquisition_date are absent; on the imagery path the
\* base is ndvi 0.62, 75/15/10 percent, alert false.
C16_MapUrlMarksImagery ==
  \A s \in Slots :
    Succeeded(s) =>
      LET b == req[s].resp.body
      IN  /\ (b.map_url # Null) <=> ProductReturned(s)
          /\ ~ProductReturned(s) =>
               /\ Called(s, "timer")
               /\ b.map_url = Null
               /\ "product_id" \notin DOMAIN b
               /\ "acquisition_date" \notin DOMAIN b
          /\ ProductReturned(s) =>
               /\ b.ndvi_average = 620
               /\ b.healthy_percent = 7500
               /\ b.moderate_percent = 1500
               /\ b.stressed_percent = 1000
               /\ b.alert = FALSE
               /\ {"product_id", "acquisition_date"} \subseteq DOMAIN b

\* C16 witness: the search returned product P1 and the response carries its
\* map reference and the fixed base.
C16_Witness ==
  \E s \in Slots :
    /\ Succeeded(s) /\ ProductReturned(s)
    /\ req[s].resp.body.map_url = Str(<<"Products", "P1", "$value">>)
    /\ req[s].resp.body.product_id = "P1"
    /\ req[s].resp.body.ndvi_average = 620

\* The three shares of a record add up to 100 within 1 (in hundredths).
SharesAddUp(a) ==
  a.healthy_percent + a.moderate_percent + a.stressed_percent \in 9900..10100

\* C17: for every analysis record the handler produces, on the imagery path
\* and on the synthetic path, healthy_percent + moderate_percent +
\* stressed_percent is 100 within 1: in the handler's base, in the response
\* and in the inserted row.
C17_SharesSumTo100 ==
  \A s \in Slots :
    BaseDecided(s) =>
      /\ SharesAddUp(req[s].analysisResult)
      /\ Succeeded(s) => SharesAddUp(req[s].resp.body)
      /\ InsertedRow(s) => SharesAddUp(analyses[Len(analyses)])

\* C18: a step of an analyze or delete request of user U leaves every field
\* of another user V in place with its row unchanged (last_analysis
\* included) and adds no analyses row for it, whatever field the request
\* names.
C18_OtherUsersFieldsUntouched ==
  [][\A s \in Slots :
       (req[s].kind \in {"analyze", "delete"} /\ req'[s] # req[s])
       => \A g \in DOMAIN fields :
            fields[g].user_id # req[s].user
            => /\ g \in DOMAIN fields'
               /\ fields'[g] = fields[g]
               /\ rowsOf(analyses', g) = rowsOf(analyses, g)]_vars

\* C18 witness: u2 analyzed field 1 of u1 and then asked to delete it; both
\* requests were answered 200, and the field is as u1 created it, without an
\* analyses row.
C18_Witness ==
  \E s \in Slots :
    /\ req[s].kind = "delete" /\ req[s].user = "u2" /\ req[s].body.id = 1
    /\ Answered(s) /\ req[s].resp.status = 200
    /\ 1 \in DOMAIN fields /\ fields[1].user_id = "u1"
    /\ fields[1].last_analysis.ndvi_average = 0
    /\ analyses = <<>>
    /\ \E i \in DOMAIN activity_log :
         activity_log[i].user_id = "u2" /\ activity_log[i].type = "analysis"

\* A provider's reply that wraps the insight object in code-fence markers.
FencedReply ==
  Reply(Str(<<"<fence-json>", "\n", "{insight}", "\n", "<fence>">>))

\* C19: with either provider, a reply that is the insight object wrapped in
\* code-fence markers is stripped of the markers and parsed: ai_insight is
\* the object the provider returned, not the placeholder.
C19_FencedJsonParsed ==
  \A s \in Slots :
    (InsightDecided(s) /\ req[s].reply = FencedReply)
    => /\ req[s].aiInsight = ProviderInsight
       /\ Succeeded(s) => req[s].resp.body.ai_insight = ProviderInsight

InsightKeys == {"status_title", "summary", "weather_impact", "recommendations"}

\* A non-null object that carries the four fields of an insight.
WellFormedInsight(x) == x.t = "object" /\ InsightKeys \subseteq DOMAIN x.v

\* C20: in every success response and every inserted analyses row, ai_insight
\* is a non-null object with status_title, summary, weather_impact and
\* recommendations, for every text the provider returns, valid JSON of
\* another shape (null, {}, an array, a number) included.
C20_InsightAlwaysWellFormed ==
  \A s \in Slots :
    InsightDecided(s) =>
      /\ WellFormedInsight(req[s].aiInsight)
      /\ Succeeded(s) => WellFormedInsight(req[s].resp.body.ai_insight)
      /\ InsertedRow(s) => WellFormedInsight(analyses[Len(analyses)].ai_insight)

(***************************************************************************)
(* The order of the steps of POST /api/analyze.                            *)
(***************************************************************************)
\* The observable steps of a run, in the order of the claim.
stepRank(c) ==
  CASE c = "copernicus-token"  -> 1
    [] c = "copernicus-search" -> 2
    [] c = "open-meteo"        -> 3
    [] c \in {"groq", "gemini"} -> 4
    [] c = "insert-analysis"   -> 5
    [] c = "update-field"      -> 6
    [] c = "insert-log"        -> 7

ObservableCalls ==
  {"copernicus-token", "copernicus-search", "open-meteo", "groq", "gemini",
   "insert-analysis", "update-field", "insert-log"}

WriteCalls == {"insert-analysis", "update-field", "insert-log"}

\* The call a handler waits for at a position.
awaitedAt(pc) ==
  CASE pc = "token"   -> {"copernicus-token"}
    [] pc = "search"  -> {"copernicus-search"}
    [] pc = "mock"    -> {"timer"}
    [] pc = "select"  -> {"select-field"}
    [] pc = "weather" -> {"open-meteo"}
    [] pc = "ai"      -> {"groq", "gemini"}
    [] pc = "insert"  -> {"insert-analysis"}
    [] pc = "update"  -> {"update-field"}
    [] pc = "log"     -> {"insert-log"}

\* The calls of handler state r were issued in the order of the claim.
StepsInOrder(r, cfg) ==
  LET steps == SelectSeq(r.calls, LAMBDA c : c \in ObservableCalls)
      n     == Len(r.calls)
      wrote == \E i \in DOMAIN r.calls : r.calls[i] \in WriteCalls
  IN  /\ \A i, j \in DOMAIN steps : i < j => stepRank(steps[i]) < stepRank(steps[j])
      /\ r.calls # <<>> => ~Falsy(r.body.lat) /\ ~Falsy(r.body.lon)
      /\ wrote =>
           /\ r.pc \in {"insert", "update", "log", "done"}
           /\ r.aiInsight # Undefined
           /\ \E i \in DOMAIN r.calls : r.calls[i] = "open-meteo"
           /\ provider(cfg) # "none" =>
                \E i \in DOMAIN r.calls : r.calls[i] = provider(cfg)
      /\ (r.pc = "done" /\ r.calls # <<>>) =>
           /\ n >= 3
           /\ SubSeq(r.calls, n - 2, n) = <<"insert-analysis", "update-field", "insert-log">>
           /\ r.resp.status = 200
      /\ r.pc \notin {"done", "idle"} => r.calls[n] \in awaitedAt(r.pc)

\* A step of a handler issues at most one call, and only when the call it
\* awaited has returned.
OneAtATime(r, r2) ==
  r.kind = "analyze" =>
    \/ r2.calls = r.calls /\ r2.pc \in {r.pc, "done", "idle"}
    \/ /\ Len(r2.calls) = Len(r.calls) + 1
       /\ SubSeq(r2.calls, 1, Len(r.calls)) = r.calls
       /\ r2.pc # r.pc

\* C21: in every run of POST /api/analyze the steps occur in the order
\* coordinate check, token request, catalogue search, weather request, the
\* one language-model call, analyses insert, field update, activity_log
\* insert, response; a call is issued only when the one before it has
\* returned; no write is issued before the insight is decided, and the
\* response is sent only after the third write has returned.
C21_StepsInOrder ==
  [][\A s \in Slots :
       req'[s].kind = "analyze"
       => StepsInOrder(req'[s], config) /\ OneAtATime(req[s], req'[s])]_vars

\* C21 witness: a request that made every call was answered, the calls in
\* the order of the claim.
C21_Witness ==
  \E s \in Slots :
    /\ Succeeded(s)
    /\ req[s].calls = <<"copernicus-token", "copernicus-search", "select-field",
                        "open-meteo", "groq", "insert-analysis", "update-field",
                        "insert-log">>

\* The weather is decided (the handler awaits the model or a write, or has
\* answered).
WeatherDecided(s) ==
  Analyzing(s) /\ (req[s].pc \in {"ai", "insert", "update", "log"} \/ Answered(s))

\* The forecast request of slot s failed, or its reply lacks a part the
\* handler reads.
ForecastLost(s) ==
  \/ req[s].weatherRes = Undefined
  \/ \E part \in {"current", "daily"} : req[s].weatherRes.v[part] = Undefined
  \/ "precipitation_sum" \notin DOMAIN req[s].weatherRes.v.daily

\* The snapshot of the claim for a month (wind in tenths).
FallbackTable(month) ==
  CASE month \in {10, 11, 0, 1, 2} ->
         [temp |-> -5, condition |-> "Snow", humidity |-> 60, wind |-> 50, rain_14d |-> 0]
    [] month \in {5, 6, 7} ->
         [temp |-> 25, condition |-> "Clear", humidity |-> 60, wind |-> 50, rain_14d |-> 0]
    [] month \in {3, 4, 8, 9} ->
         [temp |-> 10, condition |-> "Clouds", humidity |-> 60, wind |-> 50, rain_14d |-> 0]

\* C22: when the weather request fails or its reply cannot be read, the
\* request is still answered success: true and the weather snapshot, in the
\* handler, in the response and in the inserted row, is the one of the month:
\* -5 and Snow for months 10, 11, 0, 1, 2; 25 and Clear for 5, 6, 7; 10 and
\* Clouds for 3, 4, 8, 9; with humidity 60, wind 5 and rain_14d 0.
C22_WeatherFallbackByMonth ==
  \A s \in Slots :
    (WeatherDecided(s) /\ ForecastLost(s))
    => /\ req[s].month \in 0..11
       /\ req[s].weather = FallbackTable(req[s].month)
       /\ Answered(s) =>
            Succeeded(s) /\ req[s].resp.body.weather = FallbackTable(req[s].month)
       /\ InsertedRow(s) =>
            analyses[Len(analyses)].weather_data = FallbackTable(req[s].month)

\* C22 witness: in September a reply without its daily series was answered
\* with the shoulder-season snapshot, and the row was inserted.
C22_Witness ==
  \E s \in Slots :
    /\ Succeeded(s) /\ req[s].month = 8
    /\ req[s].weatherRes # Undefined
    /\ req[s].weatherRes.v.current # Undefined
    /\ req[s].weatherRes.v.daily = [time |-> <<>>]
    /\ InsertedRow(s)
    /\ analyses[Len(analyses)].weather_data.temp = 10
    /\ req[s].resp.body.weather.condition = "Clouds"

\* The imagery step of slot s ended without a product: the token request
\* failed, the search failed, or the search returned no product.
TokenFailed(s) ==
  Called(s, "copernicus-token") /\ req[s].pc # "token" /\ ~Called(s, "copernicus-search")

SearchFailed(s) ==
  Called(s, "copernicus-search") /\ req[s].pc # "search" /\ req[s].searchRes = Undefined

SearchEmpty(s) ==
  Called(s, "copernicus-search") /\ req[s].pc # "search" /\ req[s].searchRes = Arr(<<>>)

\* Slot s uses the synthetic base and, once answered, reports success.
UsesFallback(s) ==
  /\ Called(s, "timer")
  /\ req[s].pc = "mock" => req[s].analysisResult = Null
  /\ BaseDecided(s) =>
       /\ req[s].analysisResult.map_url = Null
       /\ "product_id" \notin DOMAIN req[s].analysisResult
       /\ InBands(req[s].analysisResult)
  /\ Answered(s) => Succeeded(s) /\ req[s].resp.body.map_url = Null

RECURSIVE PresentSum(_)
PresentSum(series) ==
  IF series = <<>> THEN 0
  ELSE (IF Head(series).t = "number" THEN Head(series).v ELSE 0)
         + PresentSum(Tail(series))

\* The integer nearest to x tenths, a half going up.
Nearest(x) == CHOOSE n \in 0..(x \div 10 + 1) : 10 * n - 5 <= x /\ x < 10 * n + 5

\* C24: on the weather success path rain_14d is the rounded sum of the daily
\* series with every missing (null or undefined) value counted as zero: for
\* every series, with missing entries or without, it is the rounded sum of
\* the values that are present.
C24_RainSumSkipsMissing ==
  fn.op = "rain_14d" => fn.out = Nearest(PresentSum(fn.arg))

\* C24 witness: a series of a null, 2.1 mm and an undefined value gave 2.
C24_Witness ==
  /\ fn.op = "rain_14d"
  /\ Len(fn.arg) = 3
  /\ fn.arg[1] = Null /\ fn.arg[2] = Num(21) /\ fn.arg[3] = Undefined
  /\ fn.out = 2

\* C25: for every polygon P of at least 3 <<lat, lon>> points,
\* fromGeoJSONPolygon(toGeoJSONPolygon(P)) is P, with the same points in the
\* same order and of the same length: a field read back through
\* GET /api/fields has the polygon submitted to POST /api/fields.
C25_PolygonRoundTrip ==
  (fn.op = "polygon" /\ Len(fn.arg) >= 3)
  => /\ Len(fn.out) = Len(fn.arg)
     /\ \A i \in 1..Len(fn.arg) : fn.out[i] = fn.arg[i]

HandlerKinds == {"analyze", "create", "delete", "settings", "activity"}

\* The token of a header as the claim names it: what stands after the first
\* space, up to the next space or the end; <<>> when there is no space or
\* nothing after it.
TokenAfterFirstSpace(h) ==
  LET spaces == {i \in DOMAIN h : h[i] = " "}
  IN  IF spaces = {} THEN <<>>
      ELSE LET first == CHOOSE i \in spaces : \A j \in spaces : i <= j
               later == {j \in spaces : j > first}
               stop  == IF later = {} THEN Len(h) + 1
                        ELSE CHOOSE j \in later : \A k \in later : j <= k
           IN  SubSeq(h, first + 1, stop - 1)

\* The request in state r is one the claim says is refused: no header, no
\* token, a token the provider rejected, or no user returned.
Refused(r) ==
  \/ r.header = Undefined
  \/ r.header.v = <<>>
  \/ TokenAfterFirstSpace(r.header.v) = <<>>
  \/ /\ r.authRes # Undefined
     /\ r.authRes.v.kind = "throw" \/ r.authRes.v.error \/ r.authRes.v.user = ""

\* C26: on every guarded route, a request with no Authorization header, with
\* a header that has no token after its first space, with a token the auth
\* provider rejects, or for which the provider returns no user is answered
\* 401 and the route handler never runs: it issues no store call and the
\* store stays as the request found it.  A handler runs only with req.user
\* set to the user of the request's own token, which is the token req.supabase
\* is bound to.
C26_RequireAuthGuards ==
  \A s \in Slots :
    req[s].kind # "idle" =>
      LET r == req[s]
      IN  /\ Refused(r) =>
                /\ r.kind = "auth" /\ r.pc = "done"
                /\ r.resp.status = 401
                /\ \A i \in DOMAIN r.calls : r.calls[i] = "get-user"
                /\ snapshot = r.pre
          /\ r.kind \in HandlerKinds =>
                /\ r.user \in {"u1", "u2"}
                /\ r.token = Str(TokenAfterFirstSpace(r.header.v))
                /\ r.user = tokenUser(r.token.v)
                /\ r.authRes.v.user = r.user
                /\ r.calls[1] = "get-user"
          /\ (r.kind = "auth" /\ r.pc = "done") => r.resp.status = 401

\* C26 witness: after u1 created a field, a request to delete it whose token
\* is valid got no user from the provider: it was answered 401 and the field
\* is still there.
C26_Witness ==
  \E s \in Slots :
    /\ req[s].kind = "auth" /\ req[s].route = "delete" /\ Answered(s)
    /\ req[s].header = Str(<<"Bearer", " ", "t1">>)
    /\ req[s].authRes # Undefined
    /\ req[s].authRes.v.kind = "ok" /\ ~req[s].authRes.v.error
    /\ req[s].resp.status = 401
    /\ 1 \in DOMAIN fields /\ fields[1].user_id = "u1"

\* The snapshot of a field is the analysis of an analyses row.
SnapshotOf(snap, row) ==
  /\ snap.ndvi_average = row.ndvi_average
  /\ snap.healthy_percent = row.healthy_percent
  /\ snap.moderate_percent = row.moderate_percent
  /\ snap.stressed_percent = row.stressed_percent
  /\ "weather" \in DOMAIN snap /\ snap.weather = row.weather_data
  /\ "ai_insight" \in DOMAIN snap /\ snap.ai_insight = row.ai_insight

\* C27: when analyze requests for the same field run at the same time and
\* all their writes succeed, then once all of them have responded the
\* field's last_analysis is the analysis of the request whose analyses row
\* was inserted last.
C27_LastInsertWins ==
  (\A s \in Slots : Analyzing(s) => Succeeded(s)) =>
    \A f \in DOMAIN fields :
      LET rows == rowsOf(analyses, f)
      IN  Len(rows) >= 2 => SnapshotOf(fields[f].last_analysis, rows[Len(rows)])

\* The effect the claim requires behind a log row written by the request in
\* state r, the requests being served one at a time.
TookEffect(row, r) ==
  CASE row.type = "create_field" ->
         \E f \in DOMAIN fields \ DOMAIN r.pre.fields : fields[f].user_id = row.user_id
    [] row.type = "delete_field" ->
         /\ ownsField(r.pre.fields, row.user_id, r.body.id)
         /\ r.body.id \notin DOMAIN fields
    [] row.type = "analysis" ->
         /\ r.body.field_id.t = "number"
         /\ ownsField(r.pre.fields, row.user_id, r.body.field_id.v)
         /\ Len(rowsOf(analyses, r.body.field_id.v))
              = Len(rowsOf(r.pre.analyses, r.body.field_id.v)) + 1

\* C28: every activity_log row records an action that took effect: a
\* create_field row is written only if the caller's field insert succeeded,
\* a delete_field row only if a field row of the caller was removed, an
\* analysis row only if an analyses row was inserted for an existing field
\* of the caller.
C28_LogRowsReflectEffects ==
  \A s \in Slots :
    req[s].kind # "idle" =>
      \A i \in DOMAIN activity_log :
        i > Len(req[s].pre.activity_log)
        => /\ activity_log[i].user_id = req[s].user
           /\ TookEffect(activity_log[i], req[s])

\* C29: in every run of POST /api/analyze a stress cause other than the
\* no-stress label is reported only when the seasonal norm is 0.8 (month
\* index 5, 6 or 7): the index is 0.62 on the imagery path and at least 0.58
\* on the synthetic path, so the deviation is never below -0.15 in any other
\* month.
C29_StressOnlyInSummer ==
  \A s \in Slots :
    StressDecided(s) =>
      LET r == req[s]
      IN  /\ r.analysisResult.ndvi_average >= 580
          /\ ProductReturned(s) => r.analysisResult.ndvi_average = 620
          /\ r.month \notin {5, 6, 7} =>
               /\ r.ndviDeviation >= -150
               /\ r.stressCause = "Net yavnogo stressa"
          /\ r.stressCause # "Net yavnogo stressa" =>
               r.seasonalNorm = 800 /\ r.month \in {5, 6, 7}
          /\ Succeeded(s) =>
               (r.resp.body.stress_cause # "Net yavnogo stressa"
                  => r.resp.body.seasonal_norm = 800)

\* C29 witness: in June a request on the imagery path reported a stress
\* cause, with deviation -0.18.
C29_Witness ==
  \E s \in Slots :
    /\ Succeeded(s) /\ ProductReturned(s) /\ req[s].month = 6
    /\ req[s].resp.body.seasonal_norm = 800
    /\ req[s].resp.body.ndvi_deviation = -180
    /\ req[s].resp.body.stress_cause = "Zaderzhka vegetatsii / Pitanie"

\* C30: in AuthProvider, once the initial session check has finished, token
\* null implies user null in every state: after logout() or a session-cleared
\* auth event has set both to null, a fetchUser call started earlier that
\* resolves afterwards does not make user non-null again, for every
\* interleaving of auth events and replies of /api/auth/me.
C30_NoUserWithoutToken ==
  (~client.checking /\ client.token = Null) => client.user = Null

====
